---- MODULE Spec2Model ----
(***************************************************************************)
(* Identity stabilisation of the playbook backend: IDStabilizer,           *)
(* PersistentIDManager, IDManager and SmartTracker, each modelled as the   *)
(* state of one object and one action per public per-frame method.         *)
(*                                                                         *)
(* Positions are bbox centres ((x1+x2)/2, (y1+y2)/2).  The model keeps     *)
(* every centre doubled (x1+x2, y1+y2) so that it stays an integer; a      *)
(* comparison "distance < D" of the code is the comparison                 *)
(* "4*distance^2 < 4*D^2" here, which is the same predicate.               *)
(***************************************************************************)
EXTENDS Integers, Sequences, FiniteSets, TLC

(***************************************************************************)
(* Bounds of the model.                                                    *)
(***************************************************************************)
MaxBT == 2          \* transient (ByteTrack) ids are 1..MaxBT
MaxTracks == 2      \* at most this many tracks in one frame
MaxCalls == 3       \* at most this many per-frame calls on one object
MaxDetections == 3  \* at most this many tracks over all calls on one object

BTIds == 1..MaxBT

\* bounding boxes (x1, y1, x2, y2) a detection can have; their centres are
\* (10,20), (40,20), (70,80) and (210.5,20), so the distances between the
\* centres are 30, 84.85.., 200.5, 67.08.., 170.5 and 152.8..
BoxA == <<0, 0, 20, 40>>
BoxB == <<30, 0, 50, 40>>
BoxC == <<60, 60, 80, 100>>
BoxD == <<200, 0, 221, 40>>

NONE == 0           \* Python's None where an id is expected

White == <<255, 255, 255>>
Green == <<0, 255, 0>>
Gray == <<128, 128, 128>>

(***************************************************************************)
(* Dictionaries                                                            *)
(***************************************************************************)
EmptyMap == [k \in {} |-> 0]

Put(f, k, v) == [x \in (DOMAIN f) \cup {k} |-> IF x = k THEN v ELSE f[x]]

Drop(f, K) == [x \in (DOMAIN f) \ K |-> f[x]]

Last(s) == s[Len(s)]

\* s[-n:]
LastN(s, n) == IF Len(s) <= n THEN s ELSE SubSeq(s, Len(s) - n + 1, Len(s))

\* the smallest element of a non-empty set of integers
MinOf(S) == CHOOSE m \in S : \A o \in S : m <= o

(***************************************************************************)
(* Geometry                                                                *)
(***************************************************************************)
\* get_position_from_bbox, doubled
GetPositionFromBbox(bbox) == <<bbox[1] + bbox[3], bbox[2] + bbox[4]>>

\* 4 * (squared Euclidean distance) of two doubled positions
Dist2x4(p, q) == (p[1] - q[1]) * (p[1] - q[1]) + (p[2] - q[2]) * (p[2] - q[2])

\* distance < d
DistLess(p, q, d) == Dist2x4(p, q) < 4 * d * d

\* distance > d
DistGreater(p, q, d) == Dist2x4(p, q) > 4 * d * d

(***************************************************************************)
(* Inputs of one per-frame call: an ordered dict of tracks with distinct   *)
(* transient ids.  team is the classifier's answer for that detection.     *)
(***************************************************************************)
Tracks(boxes, answers) == [id : BTIds, bbox : boxes, team : answers]

DistinctIds(ts) == \A i, j \in 1..Len(ts) : i # j => ts[i].id # ts[j].id

FrameInputs(boxes, answers, most) ==
    UNION { { ts \in [1..n -> Tracks(boxes, answers)] : DistinctIds(ts) } : n \in 0..most }

Min(a, b) == IF a <= b THEN a ELSE b

\* the mint log m extended by the ids the events ev(i..) report as new
RECURSIVE LogMints(_, _, _)
LogMints(m, ev, i) ==
    IF i > Len(ev) THEN m
    ELSE LogMints(IF ev[i].kind = "new" THEN [m EXCEPT ![ev[i].counter] = Append(@, ev[i].id)] ELSE m,
                  ev, i + 1)

VARIABLES
    impl,                \* which class this object is an instance of
    frame_num,           \* frame_num argument of the last call (-1: none yet)
    calls,               \* number of calls made
    out,                 \* value returned by the last call
    events,              \* what the last call did with each track, in order
    emitted,             \* every <<id, team, team_color>> returned so far
    removed,             \* every id removed by a cleanup so far
    cleaned,             \* the ids removed by the cleanup of the last call
    minted,              \* per id counter, the ids minted so far, in order
    detections,          \* number of tracks passed in so far
    position_history,    \* IDStabilizer.position_history, PersistentIDManager.position_history
    last_seen,           \* IDStabilizer.last_seen
    \* IDStabilizer
    stable_registry, bytetrack_to_stable, next_stable_id,
    \* PersistentIDManager
    player_registry, next_team1_id, next_team2_id,
    \* IDManager
    active_team1_ids, active_team2_ids, player_positions,
    tracker_id_to_consistent_id, consistent_id_to_team,
    unmapped,            \* every <<tracker_id, consistent_id>> cleanup_old_mappings has removed
    \* SmartTracker
    track_history, team_colors,
    \* TeamAssigner
    player_team_dict,    \* TeamAssigner.player_team_dict
    kmeans,              \* TeamAssigner.kmeans is not None
    current_frame,       \* the current_frame argument of the last call was not None
    returned_teams,      \* every <<player_id, team>> get_player_team has returned
    team_colors_initialized,  \* the local flag of get_object_tracks
    derived_at,          \* the frames at which get_object_tracks called assign_team_color
    \* AdvancedTracker.assign_ball_possession
    tracks_players,      \* tracks["players"]: per frame the ordered dict of players
    tracks_ball,         \* tracks["ball"]: per frame the bbox of ball 1
    \* upload_video
    frames_read,         \* number of frames the statistics loop has read
    team_possession, last_player_with_ball, last_player_team, passes, player_passes,
    possession_pct,      \* team_1_pct and team_2_pct as fractions (<<>>: not computed yet)
    \* CameraMovementEstimator.get_camera_movement
    camera_movement,     \* the list camera_movement (<<>>: the call has not begun)
    old_features,        \* old_features (<<>>: None)
    cam_frame_num,       \* frame_num of the loop
    new_features,        \* what calcOpticalFlowPyrLK returned in the last iteration
    frame_features,      \* what goodFeaturesToTrack finds in the frame of the last iteration
    \* AdvancedTracker.process_video_with_camera_tracking
    tracks,              \* tracks: object type -> frames -> entities, in iteration order
    camera_movement_per_frame,  \* <<>>: not computed yet
    called,              \* the calls made on tracks so far, in order
    \* EventExtractor._extract_possession_changes
    possession_timeline, \* the entries of possession_timeline read so far
    current_possessor,   \* current_possessor (NONE: None)
    possession_events,   \* the list events
    \* KalmanBoxTracker, ByteTracker and VideoProcessor.process_video
    count,               \* KalmanBoxTracker.count, shared by every tracker of the process
    trackers,            \* ByteTracker.trackers of the VideoProcessor's current ByteTracker
    frame_count,         \* ByteTracker.frame_count
    tracked_objects,     \* the track ids the last update returned, in order
    analyses,            \* number of ByteTracker objects the VideoProcessor has made
    created,             \* every tracker made in the process: its id and the analysis it was made in
    retired,             \* the ids of the trackers removed so far
    unmatched_updates,   \* per live tracker id, the updates since it was made or last matched
    last_update          \* the detections of the last update and the tracker ids it matched

obsVars == <<frame_num, calls, out, events, emitted, removed, cleaned, minted, detections>>

stabVars == <<stable_registry, bytetrack_to_stable, next_stable_id>>

persVars == <<player_registry, next_team1_id, next_team2_id>>

idmVars == <<active_team1_ids, active_team2_ids, player_positions,
             tracker_id_to_consistent_id, consistent_id_to_team, unmapped>>

smartVars == <<track_history, team_colors>>

teamVars == <<player_team_dict, kmeans, current_frame, returned_teams, team_colors_initialized, derived_at>>

\* the state of the statistics computed from the tracks
possVars == <<tracks_players, tracks_ball>>

tallyVars == <<frames_read, team_possession, last_player_with_ball, last_player_team, passes,
               player_passes, possession_pct>>

camVars == <<camera_movement, old_features, cam_frame_num, new_features, frame_features>>

pipeVars == <<tracks, camera_movement_per_frame, called>>

eventVars == <<possession_timeline, current_possessor, possession_events>>

byteVars == <<count, trackers, frame_count, tracked_objects, analyses, created, retired,
              unmatched_updates, last_update>>

serviceVars == <<eventVars, byteVars>>

statsVars == <<possVars, tallyVars, camVars, pipeVars, serviceVars>>

\* the state of the identity classes
identityVars == <<obsVars, position_history, last_seen, stabVars, persVars, idmVars, smartVars,
                  teamVars>>

vars == <<impl, obsVars, position_history, last_seen, stabVars, persVars, idmVars, smartVars,
          teamVars, statsVars>>

\* the number of tracks the next call can still have
Room == Min(MaxTracks, MaxDetections - detections)

\* one more call, at a later frame, with raw_tracks as its tracks; the first
\* call is the call for frame 0
Call(steps, raw_tracks, f) ==
    /\ calls < MaxCalls
    /\ detections + Len(raw_tracks) <= MaxDetections
    /\ f - frame_num \in (IF calls = 0 THEN {1} ELSE steps)
    /\ frame_num' = f
    /\ calls' = calls + 1
    /\ detections' = detections + Len(raw_tracks)
    /\ UNCHANGED impl

(***************************************************************************)
(* IDStabilizer                                                            *)
(***************************************************************************)
max_distance_reconnect == 80
max_frames_missing == 10
StabMaxAge == 120
StabHistoryLen == 20

\* the state of an IDStabilizer together with what the running call has
\* returned and reported so far
StabState(reg, b2s, hist, seen, next, o, ev) ==
    [reg |-> reg, b2s |-> b2s, hist |-> hist, seen |-> seen, next |-> next, out |-> o, ev |-> ev]

\* StabCandidate without the upper limit on the number of frames missing
StabCandidateNoGapLimit(S, sid, position, f) ==
    /\ sid \in DOMAIN S.seen
    /\ f - S.seen[sid] > 0
    /\ sid \in DOMAIN S.hist
    /\ S.hist[sid] # <<>>
    /\ DistLess(position, <<Last(S.hist[sid])[2], Last(S.hist[sid])[3]>>, max_distance_reconnect)

\* the condition of find_missing_player_by_position on one registry entry
StabCandidate(S, sid, position, f) ==
    /\ sid \in DOMAIN S.seen
    /\ f - S.seen[sid] <= max_frames_missing
    /\ f - S.seen[sid] > 0
    /\ sid \in DOMAIN S.hist
    /\ S.hist[sid] # <<>>
    /\ DistLess(position, <<Last(S.hist[sid])[2], Last(S.hist[sid])[3]>>, max_distance_reconnect)

\* FindMissingPlayerByPosition with "distance <= best_distance": among equally
\* near candidates the one met last wins
FindMissingPlayerLastOfNearest(S, position, f) ==
    LET cands == { sid \in DOMAIN S.reg : StabCandidate(S, sid, position, f) }
        d(sid) == Dist2x4(position, <<Last(S.hist[sid])[2], Last(S.hist[sid])[3]>>)
        best == { sid \in cands : \A o \in cands : d(sid) <= d(o) }
    IN  IF cands = {} THEN NONE ELSE CHOOSE sid \in best : \A o \in best : o <= sid

\* find_missing_player_by_position: the nearest candidate; the registry is
\* iterated in insertion order, which is ascending id order, and only a
\* strictly smaller distance replaces the best match
FindMissingPlayerByPosition(S, position, f) ==
    LET cands == { sid \in DOMAIN S.reg : StabCandidate(S, sid, position, f) }
        d(sid) == Dist2x4(position, <<Last(S.hist[sid])[2], Last(S.hist[sid])[3]>>)
        best == { sid \in cands : \A o \in cands : d(sid) <= d(o) }
    IN  IF cands = {} THEN NONE ELSE MinOf(best)

\* StableTrack with the team of the fresh classification instead of the lock
StableTrackFresh(reg, sid, tr) ==
    [bbox |-> tr.bbox, team |-> tr.team, team_color |-> IF tr.team = 1 THEN White ELSE Green]

\* the track returned for stable id sid: the input track with the team and
\* colour locked in the registry
StableTrack(reg, sid, tr) ==
    [bbox |-> tr.bbox, team |-> reg[sid].team, team_color |-> reg[sid].team_color]

\* one iteration of the loop of stabilize_frame_tracks
StabTrack(S, tr, f) ==
    LET position == GetPositionFromBbox(tr.bbox)
        known == tr.id \in DOMAIN S.b2s
        found == IF known THEN S.b2s[tr.id] ELSE FindMissingPlayerByPosition(S, position, f)
        mint == ~known /\ found = NONE
        sid == IF mint THEN S.next ELSE found
        team_color == IF tr.team = 1 THEN White ELSE Green
        reg1 == IF known THEN S.reg
                ELSE IF mint
                THEN Put(S.reg, sid, [bytetrack_ids |-> <<tr.id>>, team |-> tr.team, team_color |-> team_color])
                ELSE [S.reg EXCEPT ![sid].bytetrack_ids = Append(@, tr.id)]
        prev == IF sid \in DOMAIN S.hist THEN S.hist[sid] ELSE <<>>
        hist1 == Put(S.hist, sid, LastN(Append(prev, <<f, position[1], position[2]>>), StabHistoryLen))
        ev == [kind |-> IF known THEN "known" ELSE IF mint THEN "new" ELSE "reconnect",
               bt |-> tr.id, id |-> sid, answer |-> tr.team, bbox |-> tr.bbox, counter |-> 0,
               locked |-> reg1[sid].team,
               gap |-> IF sid \in DOMAIN S.seen THEN f - S.seen[sid] ELSE 0,
               d2 |-> IF prev = <<>> THEN 0 ELSE Dist2x4(position, <<Last(prev)[2], Last(prev)[3]>>)]
    IN  StabState(reg1,
                  Put(S.b2s, tr.id, sid),
                  hist1,
                  Put(S.seen, sid, f),
                  IF mint THEN S.next + 1 ELSE S.next,
                  Put(S.out, sid, StableTrack(reg1, sid, tr)),
                  Append(S.ev, ev))

RECURSIVE StabLoop(_, _, _, _)
StabLoop(S, ts, i, f) ==
    IF i > Len(ts) THEN S ELSE StabLoop(StabTrack(S, ts[i], f), ts, i + 1, f)

\* the ids cleanup_old_players removes at frame f
StabOld(S, f) == { sid \in DOMAIN S.reg : sid \in DOMAIN S.seen /\ f - S.seen[sid] > StabMaxAge }

\* CleanupOldPlayers leaving bytetrack_to_stable as it is
CleanupOldPlayersKeepsAliases(S, f) ==
    LET old == StabOld(S, f)
    IN  StabState(Drop(S.reg, old), S.b2s, Drop(S.hist, old), Drop(S.seen, old),
                  S.next, S.out, S.ev)

\* cleanup_old_players
CleanupOldPlayers(S, f) ==
    LET old == StabOld(S, f)
        bts == { b \in DOMAIN S.b2s : \E sid \in old : \E k \in 1..Len(S.reg[sid].bytetrack_ids) :
                                         S.reg[sid].bytetrack_ids[k] = b }
    IN  StabState(Drop(S.reg, old), Drop(S.b2s, bts), Drop(S.hist, old), Drop(S.seen, old),
                  S.next, S.out, S.ev)

\* stabilize_frame_tracks(raw_tracks, frame_num, team_assigner)
StabilizeFrameTracks(raw_tracks, f) ==
    \E S1 \in { StabLoop(StabState(stable_registry, bytetrack_to_stable, position_history,
                                    last_seen, next_stable_id, EmptyMap, <<>>),
                          raw_tracks, 1, f) } :
    \E S2 \in { CleanupOldPlayers(S1, f) } :
        /\ stable_registry' = S2.reg
        /\ bytetrack_to_stable' = S2.b2s
        /\ position_history' = S2.hist
        /\ last_seen' = S2.seen
        /\ next_stable_id' = S2.next
        /\ out' = S2.out
        /\ events' = S2.ev
        /\ emitted' = emitted \cup { <<sid, S2.out[sid].team, S2.out[sid].team_color>> : sid \in DOMAIN S2.out }
        /\ cleaned' = StabOld(S1, f)
        /\ removed' = removed \cup StabOld(S1, f)
        /\ minted' = LogMints(minted, S2.ev, 1)

\* how far the frame number advances between two calls, and the boxes used
StabSteps == {1, 9, 121}
StabBoxes == {BoxA, BoxB, BoxC}

\* a call of stabilize_frame_tracks, the frame number advancing by one of steps
StabCall(steps) ==
    /\ impl = "IDStabilizer"
    /\ \E step \in steps, raw_tracks \in FrameInputs(StabBoxes, {1, 2}, Room) :
          /\ Call(steps, raw_tracks, frame_num + step)
          /\ StabilizeFrameTracks(raw_tracks, frame_num + step)
    /\ UNCHANGED <<persVars, idmVars, smartVars, teamVars, statsVars>>

StabFrame == StabCall(StabSteps)

\* calls that are never as far apart as the cleanup age of 120 frames
StabNearSteps == {1, 9, 11}

StabNearFrame == StabCall(StabNearSteps)

(***************************************************************************)
(* PersistentIDManager                                                     *)
(***************************************************************************)
max_distance_for_reconnect == 100
pers_max_frames_missing == 15
PersMaxAge == 60
PersHistoryLen == 30
Team1LastId == 11
Team2LastId == 22

PersState(reg, hist, n1, n2, o, ev) ==
    [reg |-> reg, hist |-> hist, n1 |-> n1, n2 |-> n2, out |-> o, ev |-> ev]

\* PersCandidate comparing the squared distance with the threshold
PersCandidateNoSqrt(S, pid, position, team, f) ==
    /\ S.reg[pid].team = team
    /\ f - S.reg[pid].last_seen <= pers_max_frames_missing
    /\ f - S.reg[pid].last_seen > 0
    /\ pid \in DOMAIN S.hist
    /\ S.hist[pid] # <<>>
    /\ Dist2x4(position, <<Last(S.hist[pid])[2], Last(S.hist[pid])[3]>>) < 4 * max_distance_for_reconnect

\* PersCandidate without "frame_num - last_seen > 0": an entity already seen
\* in the running frame is a candidate too
PersCandidateSeenThisFrame(S, pid, position, team, f) ==
    /\ S.reg[pid].team = team
    /\ f - S.reg[pid].last_seen <= pers_max_frames_missing
    /\ pid \in DOMAIN S.hist
    /\ S.hist[pid] # <<>>
    /\ DistLess(position, <<Last(S.hist[pid])[2], Last(S.hist[pid])[3]>>, max_distance_for_reconnect)

\* the condition of find_closest_missing_player on one registry entry
PersCandidate(S, pid, position, team, f) ==
    /\ S.reg[pid].team = team
    /\ f - S.reg[pid].last_seen <= pers_max_frames_missing
    /\ f - S.reg[pid].last_seen > 0
    /\ pid \in DOMAIN S.hist
    /\ S.hist[pid] # <<>>
    /\ DistLess(position, <<Last(S.hist[pid])[2], Last(S.hist[pid])[3]>>, max_distance_for_reconnect)

\* find_closest_missing_player: the nearest candidate.  All candidates are of
\* one team, the ids of one team are minted in ascending order and the
\* registry is iterated in insertion order, so among equally near candidates
\* the first met is the one with the smallest id
PersFindClosestMissingPlayer(S, position, team, f) ==
    LET cands == { pid \in DOMAIN S.reg : PersCandidate(S, pid, position, team, f) }
        d(pid) == Dist2x4(position, <<Last(S.hist[pid])[2], Last(S.hist[pid])[3]>>)
        best == { pid \in cands : \A o \in cands : d(pid) <= d(o) }
    IN  IF cands = {} THEN NONE ELSE MinOf(best)

\* AssignNewId handing out the lowest id of the team that is not registered
AssignNewIdLowestFree(S, team) ==
    LET free == (IF team = 1 THEN 1..Team1LastId ELSE (Team1LastId + 1)..Team2LastId) \ DOMAIN S.reg
    IN  IF free = {} THEN NONE ELSE MinOf(free)

\* assign_new_id: the id returned (NONE when the team is full)
AssignNewId(S, team) ==
    IF team = 1 /\ S.n1 <= Team1LastId THEN S.n1
    ELSE IF team = 2 /\ S.n2 <= Team2LastId THEN S.n2
    ELSE NONE

\* get_team_color
GetTeamColor(team) == IF team = 1 THEN White ELSE Green

\* one iteration of the loop of process_frame_tracks
PersTrack(S, tr, f) ==
    LET position == GetPositionFromBbox(tr.bbox)
        team == tr.team
        found == PersFindClosestMissingPlayer(S, position, team, f)
        pid == IF found = NONE THEN AssignNewId(S, team) ELSE found
        mint == found = NONE /\ pid # NONE
        reg1 == IF mint
                THEN Put(S.reg, pid, [team |-> team, color |-> GetTeamColor(team), last_seen |-> f])
                ELSE S.reg
        prev == IF pid \in DOMAIN S.hist THEN S.hist[pid] ELSE <<>>
        ev == [kind |-> IF pid = NONE THEN "dropped" ELSE IF mint THEN "new" ELSE "reconnect",
               bt |-> tr.id, id |-> pid, answer |-> team, bbox |-> tr.bbox, counter |-> team,
               locked |-> IF pid = NONE THEN NONE ELSE reg1[pid].team,
               gap |-> IF found = NONE THEN 0 ELSE f - S.reg[pid].last_seen,
               d2 |-> IF prev = <<>> THEN 0 ELSE Dist2x4(position, <<Last(prev)[2], Last(prev)[3]>>)]
    IN  IF pid = NONE
        THEN PersState(S.reg, S.hist, S.n1, S.n2, S.out, Append(S.ev, ev))
        ELSE PersState([reg1 EXCEPT ![pid].last_seen = f],
                       Put(S.hist, pid, LastN(Append(prev, <<f, position[1], position[2]>>), PersHistoryLen)),
                       IF mint /\ team = 1 THEN S.n1 + 1 ELSE S.n1,
                       IF mint /\ team = 2 THEN S.n2 + 1 ELSE S.n2,
                       Put(S.out, pid, [bbox |-> tr.bbox, team |-> reg1[pid].team,
                                        team_color |-> reg1[pid].color]),
                       Append(S.ev, ev))

RECURSIVE PersLoop(_, _, _, _)
PersLoop(S, ts, i, f) ==
    IF i > Len(ts) THEN S ELSE PersLoop(PersTrack(S, ts[i], f), ts, i + 1, f)

\* the ids the clean-up at the end of process_frame_tracks removes at frame f
PersOld(S, f) == { pid \in DOMAIN S.reg : f - S.reg[pid].last_seen > PersMaxAge }

\* process_frame_tracks(frame_tracks, frame_num, team_assigner)
ProcessFrameTracks(frame_tracks, f) ==
    \E S1 \in { PersLoop(PersState(player_registry, position_history, next_team1_id,
                                    next_team2_id, EmptyMap, <<>>),
                          frame_tracks, 1, f) } :
    \E old \in { PersOld(S1, f) } :
        /\ player_registry' = Drop(S1.reg, old)
        /\ position_history' = Drop(S1.hist, old)
        /\ next_team1_id' = S1.n1
        /\ next_team2_id' = S1.n2
        /\ out' = S1.out
        /\ events' = S1.ev
        /\ emitted' = emitted \cup { <<pid, S1.out[pid].team, S1.out[pid].team_color>> : pid \in DOMAIN S1.out }
        /\ cleaned' = old
        /\ removed' = removed \cup old
        /\ minted' = LogMints(minted, S1.ev, 1)

PersSteps == {1, 9, 16, 61}
PersBoxes == {BoxA, BoxB, BoxD}

PersFrame ==
    /\ impl = "PersistentIDManager"
    /\ \E step \in PersSteps, frame_tracks \in FrameInputs(PersBoxes, {1, 2}, Room) :
          /\ Call(PersSteps, frame_tracks, frame_num + step)
          /\ ProcessFrameTracks(frame_tracks, frame_num + step)
    /\ UNCHANGED <<last_seen, stabVars, idmVars, smartVars, teamVars, statsVars>>

\* a long clip: a call every 16 frames, each with MaxTracks detections that
\* the classifier puts in team 1
LongCalls == 6
LongSteps == {16}

PersLongFrame ==
    /\ impl = "PersistentIDManager"
    /\ calls < LongCalls
    /\ \E step \in LongSteps, frame_tracks \in FrameInputs({BoxA, BoxD}, {1}, MaxTracks) :
          /\ Len(frame_tracks) = MaxTracks
          /\ \A i \in 1..Len(frame_tracks) : frame_tracks[i].id = i
          /\ frame_num' = frame_num + (IF calls = 0 THEN 1 ELSE step)
          /\ calls' = calls + 1
          /\ detections' = detections + Len(frame_tracks)
          /\ ProcessFrameTracks(frame_tracks, frame_num')
    /\ UNCHANGED <<impl, last_seen, stabVars, idmVars, smartVars, teamVars, statsVars>>

(***************************************************************************)
(* Crowded frames: two calls for consecutive frames whose detections lie   *)
(* within reconnection distance of each other.  BoxF and BoxA are equally  *)
(* far from BoxB, BoxC is farther; a third transient id lets a frame bring *)
(* an id the IDStabilizer has no mapping for while two entities are        *)
(* missing.                                                                *)
(***************************************************************************)
CrowdCalls == 2
CrowdIds == 1..3
BoxF == <<60, 0, 80, 40>>
CrowdBoxes == {BoxA, BoxB, BoxC, BoxF}

CrowdInputs ==
    UNION { { ts \in [1..n -> [id : CrowdIds, bbox : CrowdBoxes, team : {1}]] : DistinctIds(ts) } :
            n \in 0..MaxTracks }

StabCrowdFrame ==
    /\ impl = "IDStabilizer"
    /\ calls < CrowdCalls
    /\ \E raw_tracks \in CrowdInputs :
          /\ frame_num' = frame_num + 1
          /\ calls' = calls + 1
          /\ detections' = detections + Len(raw_tracks)
          /\ StabilizeFrameTracks(raw_tracks, frame_num')
    /\ UNCHANGED <<impl, persVars, idmVars, smartVars, teamVars, statsVars>>

PersCrowdFrame ==
    /\ impl = "PersistentIDManager"
    /\ calls < CrowdCalls
    /\ \E frame_tracks \in CrowdInputs :
          /\ frame_num' = frame_num + 1
          /\ calls' = calls + 1
          /\ detections' = detections + Len(frame_tracks)
          /\ ProcessFrameTracks(frame_tracks, frame_num')
    /\ UNCHANGED <<impl, last_seen, stabVars, idmVars, smartVars, teamVars, statsVars>>

(***************************************************************************)
(* IDManager                                                               *)
(***************************************************************************)
max_players_per_team == 11
max_distance_threshold == 50
idm_max_frames_missing == 10
IdmMaxAge == 60
IdmHistoryLen == 30
Team2FirstId == 12

IdmState(a1, a2, pos, seen, t2c, c2t, o, ev) ==
    [a1 |-> a1, a2 |-> a2, pos |-> pos, seen |-> seen, t2c |-> t2c, c2t |-> c2t, out |-> o, ev |-> ev]

\* GetAvailableId with ranges one id longer
GetAvailableIdPastRange(S, team) ==
    LET free == IF team = 1
                THEN (1..(max_players_per_team + 1)) \ S.a1
                ELSE (Team2FirstId..(Team2FirstId + max_players_per_team)) \ S.a2
    IN  IF free = {} THEN NONE ELSE MinOf(free)

\* get_available_id: the smallest id of the team's range that is not active
GetAvailableId(S, team) ==
    LET free == IF team = 1
                THEN (1..max_players_per_team) \ S.a1
                ELSE (Team2FirstId..(Team2FirstId + max_players_per_team - 1)) \ S.a2
    IN  IF free = {} THEN NONE ELSE MinOf(free)

\* IdmCandidate without the distance threshold
IdmCandidateAnyDistance(S, pid, position, f) ==
    /\ pid \in DOMAIN S.seen
    /\ f - S.seen[pid] <= idm_max_frames_missing
    /\ f - S.seen[pid] > 0
    /\ pid \in DOMAIN S.pos
    /\ S.pos[pid] # <<>>

\* the condition of IDManager.find_closest_missing_player on one active id
IdmCandidate(S, pid, position, f) ==
    /\ pid \in DOMAIN S.seen
    /\ f - S.seen[pid] <= idm_max_frames_missing
    /\ f - S.seen[pid] > 0
    /\ pid \in DOMAIN S.pos
    /\ S.pos[pid] # <<>>
    /\ DistLess(position, <<Last(S.pos[pid])[2], Last(S.pos[pid])[3]>>, max_distance_threshold)

\* IDManager.find_closest_missing_player.  The active ids of the team are
\* iterated as list(set); for the few small integers the model reaches that
\* is ascending order
IdmFindClosestMissingPlayer(S, position, team, f) ==
    LET team_ids == IF team = 1 THEN S.a1 ELSE S.a2
        cands == { pid \in team_ids : IdmCandidate(S, pid, position, f) }
        d(pid) == Dist2x4(position, <<Last(S.pos[pid])[2], Last(S.pos[pid])[3]>>)
        best == { pid \in cands : \A o \in cands : d(pid) <= d(o) }
    IN  IF cands = {} THEN NONE ELSE MinOf(best)

\* one iteration of the loop of assign_consistent_ids, add_player_position
\* included
IdmTrack(S, tr, f) ==
    LET position == GetPositionFromBbox(tr.bbox)
        team == tr.team
        known == tr.id \in DOMAIN S.t2c
        found == IF known THEN S.t2c[tr.id] ELSE IdmFindClosestMissingPlayer(S, position, team, f)
        cid == IF found = NONE THEN GetAvailableId(S, team) ELSE found
        bind == ~known /\ cid # NONE
        prev == IF cid \in DOMAIN S.pos THEN S.pos[cid] ELSE <<>>
        ev == [kind |-> IF known THEN "known" ELSE IF cid = NONE THEN "dropped"
                        ELSE IF found = NONE THEN "new" ELSE "reconnect",
               bt |-> tr.id, id |-> cid, answer |-> team, bbox |-> tr.bbox, counter |-> team,
               locked |-> team,
               gap |-> IF cid \in DOMAIN S.seen THEN f - S.seen[cid] ELSE 0,
               d2 |-> IF prev = <<>> THEN 0 ELSE Dist2x4(position, <<Last(prev)[2], Last(prev)[3]>>)]
    IN  IF cid = NONE
        THEN [S EXCEPT !.ev = Append(@, ev)]
        ELSE IdmState(IF bind /\ team = 1 THEN S.a1 \cup {cid} ELSE S.a1,
                      IF bind /\ team # 1 THEN S.a2 \cup {cid} ELSE S.a2,
                      Put(S.pos, cid, LastN(Append(prev, <<f, position[1], position[2]>>), IdmHistoryLen)),
                      Put(S.seen, cid, f),
                      IF bind THEN Put(S.t2c, tr.id, cid) ELSE S.t2c,
                      IF bind THEN Put(S.c2t, cid, team) ELSE S.c2t,
                      Put(S.out, cid, [bbox |-> tr.bbox]),
                      Append(S.ev, ev))

RECURSIVE IdmLoop(_, _, _, _)
IdmLoop(S, ts, i, f) ==
    IF i > Len(ts) THEN S ELSE IdmLoop(IdmTrack(S, ts[i], f), ts, i + 1, f)

\* the consistent ids cleanup_old_mappings unmaps at frame f
IdmOld(S, f) ==
    { cid \in { S.t2c[t] : t \in DOMAIN S.t2c } : cid \in DOMAIN S.seen /\ f - S.seen[cid] > IdmMaxAge }

\* cleanup_old_mappings.  An id is discarded from the set of the team
\* recorded for it; when a second tracker id of the same consistent id is
\* handled the record is gone and team 1 is assumed, which discards nothing
\* more than the first did
CleanupOldMappings(S, f) ==
    LET old == IdmOld(S, f)
        team(cid) == IF cid \in DOMAIN S.c2t THEN S.c2t[cid] ELSE 1
    IN  [S EXCEPT !.t2c = Drop(S.t2c, { t \in DOMAIN S.t2c : S.t2c[t] \in old }),
                  !.a1 = S.a1 \ { cid \in old : team(cid) = 1 },
                  !.a2 = S.a2 \ { cid \in old : team(cid) # 1 },
                  !.c2t = Drop(S.c2t, old)]

\* assign_consistent_ids(frame_tracks, frame_num, team_assignments)
AssignConsistentIds(frame_tracks, f) ==
    \E S1 \in { IdmLoop(IdmState(active_team1_ids, active_team2_ids, player_positions, last_seen,
                                  tracker_id_to_consistent_id, consistent_id_to_team, EmptyMap, <<>>),
                         frame_tracks, 1, f) } :
    \E S2 \in { CleanupOldMappings(S1, f) } :
        /\ active_team1_ids' = S2.a1
        /\ active_team2_ids' = S2.a2
        /\ player_positions' = S2.pos
        /\ last_seen' = S2.seen
        /\ tracker_id_to_consistent_id' = S2.t2c
        /\ consistent_id_to_team' = S2.c2t
        /\ out' = S2.out
        /\ events' = S2.ev
        /\ cleaned' = IdmOld(S1, f)
        /\ removed' = removed \cup IdmOld(S1, f)
        /\ unmapped' = unmapped \cup { <<t, S1.t2c[t]>> : t \in { u \in DOMAIN S1.t2c : S1.t2c[u] \in IdmOld(S1, f) } }
        /\ UNCHANGED <<emitted, minted>>

IdmSteps == {1, 9, 11, 61}
IdmBoxes == {BoxA, BoxB, BoxC}

IdmFrame ==
    /\ impl = "IDManager"
    /\ \E step \in IdmSteps, frame_tracks \in FrameInputs(IdmBoxes, {1, 2}, Room) :
          /\ Call(IdmSteps, frame_tracks, frame_num + step)
          /\ AssignConsistentIds(frame_tracks, frame_num + step)
    /\ UNCHANGED <<position_history, stabVars, persVars, smartVars, teamVars, statsVars>>

(***************************************************************************)
(* Whole squads: frames with up to one detection more than a team has ids, *)
(* all of one team, standing in a row 100 pixels apart.  The transient ids *)
(* of a frame are those of the first frame again or ids never used before. *)
(***************************************************************************)
SquadCalls == 3
SquadSizes == {1, max_players_per_team, max_players_per_team + 1}
SquadSteps == {1, 61}
SquadRows == {0, 1}

SquadBox(i, row) == <<100 * i, 200 * row, 100 * i + 20, 200 * row + 40>>

SquadTracks(size, team, row, first_id) ==
    [i \in 1..size |-> [id |-> first_id + i, bbox |-> SquadBox(i, row), team |-> team]]

IdmSquadFrame ==
    /\ impl = "IDManager"
    /\ calls < SquadCalls
    /\ \E size \in SquadSizes, team \in {1, 2}, row \in SquadRows, first_id \in {0, detections},
          step \in (IF calls = 0 THEN {1} ELSE SquadSteps) :
          /\ frame_num' = frame_num + step
          /\ calls' = calls + 1
          /\ detections' = detections + size
          /\ AssignConsistentIds(SquadTracks(size, team, row, first_id), frame_num')
    /\ UNCHANGED <<impl, position_history, stabVars, persVars, smartVars, teamVars, statsVars>>

(***************************************************************************)
(* SmartTracker                                                            *)
(***************************************************************************)
max_velocity == 150
SmartMaxAge == 60
SmartHistoryLen == 10
AnswerNone == 0      \* the classifier returned None
AnswerRaise == 3     \* the classifier raised

\* the colours assign_team_color can produce for the two teams
ProfileColors == [t \in {1, 2} |-> IF t = 1 THEN <<240, 240, 200>> ELSE <<40, 60, 200>>]

SmartState(th, o, ev) == [th |-> th, out |-> o, ev |-> ev]

\* team_colors.get(team, (128, 128, 128))
TeamColorsGet(team) == IF team \in DOMAIN team_colors THEN team_colors[team] ELSE Gray

\* TeamOfAnswer passing on whatever the classifier gave
TeamOfAnswerUnmapped(answer) == answer

\* lines 125-131 of process_frame_detections: the team used for an answer
TeamOfAnswer(answer) == IF answer = AnswerNone \/ answer = AnswerRaise THEN 1 ELSE answer

\* validate_track_assignment; team_lock_enabled and motion_constraint_enabled
\* are True and every history has a team
ValidateTrackAssignment(S, track_id, new_bbox, new_team) ==
    IF track_id \notin DOMAIN S.th THEN TRUE
    ELSE IF S.th[track_id].team # new_team THEN FALSE
    ELSE IF S.th[track_id].positions # <<>>
            /\ DistGreater(Last(S.th[track_id].positions), GetPositionFromBbox(new_bbox), max_velocity)
         THEN FALSE
    ELSE TRUE

\* UpdateTrackHistory without the truncation of the positions
UpdateTrackHistoryUnbounded(th, track_id, bbox, team, f) ==
    LET position == GetPositionFromBbox(bbox)
    IN  IF track_id \notin DOMAIN th
        THEN Put(th, track_id, [team |-> team, positions |-> <<position>>, last_frame |-> f,
                                team_color |-> TeamColorsGet(team)])
        ELSE [th EXCEPT ![track_id].positions = Append(@, position),
                        ![track_id].last_frame = f]

\* update_track_history
UpdateTrackHistory(th, track_id, bbox, team, f) ==
    LET position == GetPositionFromBbox(bbox)
    IN  IF track_id \notin DOMAIN th
        THEN Put(th, track_id, [team |-> team, positions |-> <<position>>, last_frame |-> f,
                                team_color |-> TeamColorsGet(team)])
        ELSE [th EXCEPT ![track_id].positions = LastN(Append(@, position), SmartHistoryLen),
                        ![track_id].last_frame = f]

\* SmartTrack updating the history with a rejected detection too
SmartTrackRecordsRejected(S, tr, f) ==
    LET team == TeamOfAnswer(tr.team)
        valid == ValidateTrackAssignment(S, tr.id, tr.bbox, team)
        has == tr.id \in DOMAIN S.th
        locked_team == IF has THEN S.th[tr.id].team ELSE team
        locked_color == IF has THEN S.th[tr.id].team_color ELSE TeamColorsGet(team)
        ev == [kind |-> IF ~valid THEN "rejected" ELSE IF has THEN "known" ELSE "new",
               bt |-> tr.id, id |-> tr.id, answer |-> tr.team, bbox |-> tr.bbox, counter |-> 0,
               locked |-> locked_team]
    IN  SmartState(UpdateTrackHistory(S.th, tr.id, tr.bbox, locked_team, f),
                   IF valid
                   THEN Put(S.out, tr.id, [bbox |-> tr.bbox, team |-> locked_team, team_color |-> locked_color])
                   ELSE S.out,
                   Append(S.ev, ev))

\* one iteration of the loop of process_frame_detections
SmartTrack(S, tr, f) ==
    LET team == TeamOfAnswer(tr.team)
        valid == ValidateTrackAssignment(S, tr.id, tr.bbox, team)
        has == tr.id \in DOMAIN S.th
        locked_team == IF has THEN S.th[tr.id].team ELSE team
        locked_color == IF has THEN S.th[tr.id].team_color ELSE TeamColorsGet(team)
        ev == [kind |-> IF ~valid THEN "rejected" ELSE IF has THEN "known" ELSE "new",
               bt |-> tr.id, id |-> tr.id, answer |-> tr.team, bbox |-> tr.bbox, counter |-> 0,
               locked |-> locked_team]
    IN  IF valid
        THEN SmartState(UpdateTrackHistory(S.th, tr.id, tr.bbox, locked_team, f),
                        Put(S.out, tr.id, [bbox |-> tr.bbox, team |-> locked_team, team_color |-> locked_color]),
                        Append(S.ev, ev))
        ELSE SmartState(S.th, S.out, Append(S.ev, ev))

RECURSIVE SmartLoop(_, _, _, _)
SmartLoop(S, ts, i, f) ==
    IF i > Len(ts) THEN S ELSE SmartLoop(SmartTrack(S, ts[i], f), ts, i + 1, f)

\* SmartOld keeping a track one frame longer
SmartOldOneFrameLater(th, f) == { t \in DOMAIN th : f - th[t].last_frame > SmartMaxAge + 1 }

\* the tracks cleanup_old_tracks removes at frame f
SmartOld(th, f) == { t \in DOMAIN th : f - th[t].last_frame > SmartMaxAge }

\* process_frame_detections, on the tracks the base tracker returns, as far
\* as the SmartTracker's own state goes
SmartTracked(tracked_detections, f) ==
    \E S1 \in { SmartLoop(SmartState(track_history, EmptyMap, <<>>), tracked_detections, 1, f) } :
    \E old \in { SmartOld(S1.th, f) } :
        /\ track_history' = Drop(S1.th, old)
        /\ out' = S1.out
        /\ events' = S1.ev
        /\ emitted' = emitted \cup { <<t, S1.out[t].team, S1.out[t].team_color>> : t \in DOMAIN S1.out }
        /\ cleaned' = old
        /\ removed' = removed \cup old
        /\ UNCHANGED minted

\* process_frame_detections, on the tracks the base tracker returns
ProcessFrameDetections(tracked_detections, f) ==
    /\ SmartTracked(tracked_detections, f)
    /\ UNCHANGED team_colors

SmartSteps == {1, 61}
SmartBoxes == {BoxA, BoxD}

SmartFrame ==
    /\ impl = "SmartTracker"
    /\ \E step \in SmartSteps,
          tracked \in FrameInputs(SmartBoxes, {1, 2, AnswerNone, AnswerRaise}, Room) :
          /\ Call(SmartSteps, tracked, frame_num + step)
          /\ ProcessFrameDetections(tracked, frame_num + step)
    /\ UNCHANGED <<position_history, last_seen, stabVars, persVars, idmVars, teamVars, statsVars>>

\* set_team_colors, called once with the colours of the derived team profile
SetTeamColors ==
    /\ impl = "SmartTracker"
    /\ team_colors # ProfileColors
    /\ team_colors' = [t \in DOMAIN team_colors \cup DOMAIN ProfileColors |->
                          IF t \in DOMAIN ProfileColors THEN ProfileColors[t] ELSE team_colors[t]]
    /\ UNCHANGED <<impl, obsVars, position_history, last_seen, stabVars, persVars, idmVars, track_history,
                   teamVars, statsVars>>

(***************************************************************************)
(* A long walk: one player, transient id 1, seen in every call of a clip   *)
(* longer than every history, one pixel further right per frame.  Between  *)
(* the first calls the frame number advances by one or by two.             *)
(***************************************************************************)
HistoryCalls == 32
WalkFreeCalls == 2

WalkBox(f) == <<f, 0, f + 20, 40>>

WalkTracks(f) == << [id |-> 1, bbox |-> WalkBox(f), team |-> 1] >>

WalkSteps == IF calls \in 1..WalkFreeCalls THEN {1, 2} ELSE {1}

Walk(f) ==
    /\ calls < HistoryCalls
    /\ frame_num' = f
    /\ calls' = calls + 1
    /\ detections' = detections + 1

StabWalkFrame ==
    /\ impl = "IDStabilizer"
    /\ \E step \in WalkSteps :
          /\ Walk(frame_num + step)
          /\ StabilizeFrameTracks(WalkTracks(frame_num'), frame_num')
    /\ UNCHANGED <<impl, persVars, idmVars, smartVars, teamVars, statsVars>>

PersWalkFrame ==
    /\ impl = "PersistentIDManager"
    /\ \E step \in WalkSteps :
          /\ Walk(frame_num + step)
          /\ ProcessFrameTracks(WalkTracks(frame_num'), frame_num')
    /\ UNCHANGED <<impl, last_seen, stabVars, idmVars, smartVars, teamVars, statsVars>>

IdmWalkFrame ==
    /\ impl = "IDManager"
    /\ \E step \in WalkSteps :
          /\ Walk(frame_num + step)
          /\ AssignConsistentIds(WalkTracks(frame_num'), frame_num')
    /\ UNCHANGED <<impl, position_history, stabVars, persVars, smartVars, teamVars, statsVars>>

SmartWalkFrame ==
    /\ impl = "SmartTracker"
    /\ \E step \in WalkSteps :
          /\ Walk(frame_num + step)
          /\ ProcessFrameDetections(WalkTracks(frame_num'), frame_num')
    /\ UNCHANGED <<impl, position_history, last_seen, stabVars, persVars, idmVars, teamVars, statsVars>>

(***************************************************************************)
(* A disputed track: track id 1 is presented in every frame of a clip      *)
(* longer than the clean-up age, at one of two places too far apart for a  *)
(* player to move between, with either team as the classifier's answer.    *)
(***************************************************************************)
DisputeCalls == 64

SmartDisputeFrame ==
    /\ impl = "SmartTracker"
    /\ calls < DisputeCalls
    /\ \E bbox \in {BoxA, BoxD}, team \in {1, 2} :
          /\ frame_num' = frame_num + 1
          /\ calls' = calls + 1
          /\ detections' = detections + 1
          /\ ProcessFrameDetections(<< [id |-> 1, bbox |-> bbox, team |-> team] >>, frame_num')
    /\ UNCHANGED <<impl, position_history, last_seen, stabVars, persVars, idmVars, teamVars, statsVars>>

(***************************************************************************)
(* TeamAssigner as the team_assigner of SmartTracker                       *)
(***************************************************************************)
\* get_player_team: the team returned, or AnswerRaise when the colour
\* analysis of the crop raises; analysis is what get_player_color and
\* kmeans.predict give for the detection
TeamAssignerAnswer(dict, km, frame, player_id, analysis) ==
    IF player_id \in DOMAIN dict THEN dict[player_id]
    ELSE IF ~km THEN 1
    ELSE IF ~frame THEN 1
    ELSE analysis

\* the detections with the answer of get_player_team as their team; the track
\* ids of one frame are distinct, so no answer depends on an earlier one
Classified(tracked, frame) ==
    [i \in 1..Len(tracked) |->
        [tracked[i] EXCEPT !.team = TeamAssignerAnswer(player_team_dict, kmeans, frame,
                                                       tracked[i].id, tracked[i].team)]]

\* player_team_dict after get_player_team was called for every detection:
\* a player is locked when the colour analysis gave a team
LockedTeams(tracked, frame) ==
    LET new == { i \in 1..Len(tracked) : /\ tracked[i].id \notin DOMAIN player_team_dict
                                          /\ kmeans /\ frame
                                          /\ tracked[i].team # AnswerRaise }
    IN  [id \in DOMAIN player_team_dict \cup { tracked[i].id : i \in new } |->
            IF id \in DOMAIN player_team_dict THEN player_team_dict[id]
            ELSE tracked[CHOOSE i \in new : tracked[i].id = id].team]

\* what get_player_team returned for the detections
ReturnedTeams(classified) ==
    { <<classified[i].id, classified[i].team>> :
         i \in { j \in 1..Len(classified) : classified[j].team # AnswerRaise } }

\* process_frame_detections with a TeamAssigner as team_assigner
SmartTeamsFrame ==
    /\ impl = "SmartTracker"
    /\ \E step \in SmartSteps, frame \in BOOLEAN,
          tracked \in FrameInputs(SmartBoxes, {1, 2, AnswerRaise}, Room) :
          /\ Call(SmartSteps, tracked, frame_num + step)
          /\ ProcessFrameDetections(Classified(tracked, frame), frame_num + step)
          /\ player_team_dict' = LockedTeams(tracked, frame)
          /\ returned_teams' = returned_teams \cup ReturnedTeams(Classified(tracked, frame))
          /\ current_frame' = frame
    /\ UNCHANGED <<position_history, last_seen, stabVars, persVars, idmVars, kmeans,
                   team_colors_initialized, derived_at, statsVars>>

\* assign_team_color on a frame with at least two players
AssignTeamColor ==
    /\ impl = "SmartTracker"
    /\ ~kmeans
    /\ kmeans' = TRUE
    /\ UNCHANGED <<impl, obsVars, position_history, last_seen, stabVars, persVars, idmVars, smartVars,
                   player_team_dict, current_frame, returned_teams, team_colors_initialized, derived_at,
                   statsVars>>

(***************************************************************************)
(* PlayerBallAssigner and AdvancedTracker.assign_ball_possession           *)
(***************************************************************************)
MaxFrames == 3      \* at most this many frames in a clip

max_player_ball_distance == 70

\* the minimum_distance of 99999 before any player is in range
NoMinimum == -1

\* get_center_of_bbox: int() of the halves, for coordinates that are not
\* negative
GetCenterOfBbox(bbox) == <<(bbox[1] + bbox[3]) \div 2, (bbox[2] + bbox[4]) \div 2>>

\* measure_distance, squared
MeasureDistance2(p, q) == (p[1] - q[1]) * (p[1] - q[1]) + (p[2] - q[2]) * (p[2] - q[2])

\* PlayerBallDistance2 measuring to the bottom-left corner only
PlayerBallDistanceLeft2(player_bbox, ball_position) ==
    MeasureDistance2(<<player_bbox[1], player_bbox[4]>>, ball_position)

\* min(distance_left, distance_right), squared
PlayerBallDistance2(player_bbox, ball_position) ==
    Min(MeasureDistance2(<<player_bbox[1], player_bbox[4]>>, ball_position),
        MeasureDistance2(<<player_bbox[3], player_bbox[4]>>, ball_position))

\* the loop of assign_ball_to_player from player i on; minimum is the square
\* of minimum_distance
RECURSIVE AssignBallLoop(_, _, _, _, _)
AssignBallLoop(players, ball_position, i, minimum, assigned_player) ==
    IF i > Len(players) THEN assigned_player
    ELSE LET distance2 == PlayerBallDistance2(players[i].bbox, ball_position)
         IN  IF /\ distance2 < max_player_ball_distance * max_player_ball_distance
                /\ (minimum = NoMinimum \/ distance2 < minimum)
             THEN AssignBallLoop(players, ball_position, i + 1, distance2, players[i].id)
             ELSE AssignBallLoop(players, ball_position, i + 1, minimum, assigned_player)

\* assign_ball_to_player
AssignBallToPlayer(players, ball_bbox) ==
    AssignBallLoop(players, GetCenterOfBbox(ball_bbox), 1, NoMinimum, -1)

\* MarkedPlayers marking every player within reach of the ball
MarkedPlayersAllInRange(players, ball_bbox) ==
    [i \in 1..Len(players) |->
        [id |-> players[i].id, bbox |-> players[i].bbox, team |-> players[i].team,
         has_ball |-> PlayerBallDistance2(players[i].bbox, GetCenterOfBbox(ball_bbox))
                         < max_player_ball_distance * max_player_ball_distance]]

\* one iteration of the loop of assign_ball_possession: the players of the
\* frame with their has_ball marks
MarkedPlayers(players, ball_bbox) ==
    LET assigned_player == AssignBallToPlayer(players, ball_bbox)
    IN  [i \in 1..Len(players) |->
            [id |-> players[i].id, bbox |-> players[i].bbox, team |-> players[i].team,
             has_ball |-> (assigned_player # -1 /\ players[i].id = assigned_player)]]

\* the players of the clip: their boxes and teams
BoxE == <<230, 0, 250, 40>>
PlayerBox(id) == CASE id = 1 -> BoxA [] id = 2 -> BoxB [] id = 3 -> BoxD [] OTHER -> BoxE
PlayerTeam(id) == IF id <= 2 THEN 1 ELSE 2

\* the player dicts a frame can have, in iteration order
PlayerLayouts == { <<1, 2, 3, 4>>, <<2, 1, 3>>, <<>> }

PlayersOf(layout) ==
    [i \in 1..Len(layout) |-> [id |-> layout[i], bbox |-> PlayerBox(layout[i]), team |-> PlayerTeam(layout[i])]]

\* the ball boxes of a frame (after interpolation every frame has one); the
\* centres are (10,40), (25.5,40), (40,40), (120,40), (210,40) and (240,40)
BallBoxes == { <<5, 35, 15, 45>>, <<20, 35, 31, 45>>, <<35, 35, 45, 45>>,
               <<115, 35, 125, 45>>, <<205, 35, 215, 45>>, <<235, 35, 245, 45>> }

\* the iteration of assign_ball_possession for one more frame of the clip
AssignBallPossession ==
    /\ impl = "upload_video"
    /\ frames_read = 0
    /\ possession_pct = <<>>
    /\ Len(tracks_players) < MaxFrames
    /\ \E layout \in PlayerLayouts, ball_bbox \in BallBoxes :
          /\ tracks_players' = Append(tracks_players, MarkedPlayers(PlayersOf(layout), ball_bbox))
          /\ tracks_ball' = Append(tracks_ball, ball_bbox)
    /\ UNCHANGED <<impl, identityVars, tallyVars, camVars, pipeVars, serviceVars>>

(***************************************************************************)
(* upload_video: the statistics computed from the tracks                   *)
(***************************************************************************)
\* lines 119-146: the loop over the players of a frame, from player i on;
\* T holds team_possession and the holder found so far
RECURSIVE TallyPlayers(_, _, _)
TallyPlayers(frame_players, i, T) ==
    IF i > Len(frame_players) THEN T
    ELSE IF frame_players[i].has_ball
         THEN TallyPlayers(frame_players, i + 1,
                  [tp |-> Put(T.tp, frame_players[i].team,
                              (IF frame_players[i].team \in DOMAIN T.tp
                               THEN T.tp[frame_players[i].team] ELSE 0) + 1),
                   holder |-> frame_players[i].id,
                   team |-> frame_players[i].team])
         ELSE TallyPlayers(frame_players, i + 1, T)

\* PassCompleted without the test on the team
PassCompletedAnyTeam(holder, team, last, last_team) ==
    holder # NONE /\ last # NONE /\ holder # last

\* lines 149-152: the condition under which a pass is recorded
PassCompleted(holder, team, last, last_team) ==
    holder # NONE /\ last # NONE /\ holder # last /\ team = last_team

\* PlayerPassesAfter crediting the player who received the ball
PlayerPassesToReceiver(pp, holder, last) ==
    Put(pp, holder, (IF holder \in DOMAIN pp THEN pp[holder] ELSE 0) + 1)

\* PlayerPassesAfter crediting both the passer and the receiver
PlayerPassesToBoth(pp, holder, last) ==
    Put(Put(pp, last, (IF last \in DOMAIN pp THEN pp[last] ELSE 0) + 1),
        holder, (IF holder \in DOMAIN pp THEN pp[holder] ELSE 0) + 1)

\* lines 159-162: player_passes after a pass from last to holder
PlayerPassesAfter(pp, holder, last) ==
    Put(pp, last, (IF last \in DOMAIN pp THEN pp[last] ELSE 0) + 1)

\* one iteration of the loop over tracks['players']
TallyFrame ==
    /\ impl = "upload_video"
    /\ possession_pct = <<>>
    /\ frames_read < Len(tracks_players)
    /\ \E T \in { TallyPlayers(tracks_players[frames_read + 1], 1,
                                 [tp |-> team_possession, holder |-> NONE, team |-> NONE]) } :
       \E pass \in { PassCompleted(T.holder, T.team, last_player_with_ball, last_player_team) } :
          /\ team_possession' = T.tp
          /\ passes' = IF pass
                        THEN [total |-> passes.total + 1,
                              team_1 |-> passes.team_1 + (IF T.team = 1 THEN 1 ELSE 0),
                              team_2 |-> passes.team_2 + (IF T.team = 1 THEN 0 ELSE 1)]
                        ELSE passes
          /\ player_passes' = IF pass
                               THEN PlayerPassesAfter(player_passes, T.holder, last_player_with_ball)
                               ELSE player_passes
          /\ last_player_with_ball' = IF T.holder # NONE THEN T.holder ELSE last_player_with_ball
          /\ last_player_team' = IF T.holder # NONE THEN T.team ELSE last_player_team
    /\ frames_read' = frames_read + 1
    /\ UNCHANGED <<impl, identityVars, possVars, possession_pct, camVars, pipeVars, serviceVars>>

\* TeamPct taking the share of all the frames of the clip
TeamPctOfAllFrames(tp, team) ==
    IF Len(tracks_players) > 0 THEN <<tp[team] * 100, Len(tracks_players)>> ELSE <<50, 1>>

\* lines 213-214: team_N_pct, kept as the fraction <<numerator, denominator>>
\* (the code holds the quotient as a double)
TeamPct(tp, team) ==
    LET total_possession_frames == tp[1] + tp[2]
    IN  IF total_possession_frames > 0 THEN <<tp[team] * 100, total_possession_frames>> ELSE <<50, 1>>

\* lines 169-214: the percentages, once every frame has been read
TallyFinish ==
    /\ impl = "upload_video"
    /\ possession_pct = <<>>
    /\ Len(tracks_players) > 0
    /\ frames_read = Len(tracks_players)
    /\ possession_pct' = <<TeamPct(team_possession, 1), TeamPct(team_possession, 2)>>
    /\ UNCHANGED <<impl, identityVars, possVars, frames_read, team_possession, last_player_with_ball,
                   last_player_team, passes, player_passes, camVars, pipeVars, serviceVars>>

(***************************************************************************)
(* The detection loop of AdvancedTracker.get_object_tracks                 *)
(***************************************************************************)
MinProfilePlayers == 4

\* the player detections the base tracker can return for a frame: the first
\* count of four players that stand still
PlayerCounts == 0..4

\* what the colour analysis gives for the four players
Analyses == { [i \in 1..4 |-> 1], [i \in 1..4 |-> IF i <= 2 THEN 1 ELSE 2] }

TrackedPlayersOf(player_count, analysis) ==
    [i \in 1..player_count |-> [id |-> i, bbox |-> PlayerBox(i), team |-> analysis[i]]]

\* DerivesProfile without the flag
DerivesProfileOnEveryFullFrame(initialized, players) == Cardinality(players) >= MinProfilePlayers

\* lines 193-195: the condition of the profile derivation
DerivesProfile(initialized, players) == ~initialized /\ Cardinality(players) >= MinProfilePlayers

\* lines 128-201: one iteration of the loop over the frames.  A frame without
\* player detections does not reach the SmartTracker.
GetObjectTracksFrame ==
    /\ impl = "get_object_tracks"
    /\ calls < MaxCalls
    /\ \E player_count \in PlayerCounts, analysis \in Analyses :
       \E tracked \in { TrackedPlayersOf(player_count, analysis) } :
          /\ frame_num' = frame_num + 1
          /\ calls' = calls + 1
          /\ detections' = detections + player_count
          /\ IF player_count = 0
             THEN /\ out' = EmptyMap
                  /\ UNCHANGED <<events, emitted, removed, cleaned, minted, smartVars, teamVars>>
             ELSE /\ SmartTracked(Classified(tracked, TRUE), frame_num + 1)
                  /\ player_team_dict' = LockedTeams(tracked, TRUE)
                  /\ returned_teams' = returned_teams \cup ReturnedTeams(Classified(tracked, TRUE))
                  /\ current_frame' = TRUE
                  /\ IF DerivesProfile(team_colors_initialized, DOMAIN out')
                     THEN /\ kmeans' = TRUE
                          /\ team_colors' = ProfileColors
                          /\ team_colors_initialized' = TRUE
                          /\ derived_at' = Append(derived_at, frame_num + 1)
                     ELSE UNCHANGED <<kmeans, team_colors, team_colors_initialized, derived_at>>
    /\ UNCHANGED <<impl, position_history, last_seen, stabVars, persVars, idmVars, statsVars>>

(***************************************************************************)
(* CameraMovementEstimator.get_camera_movement                             *)
(***************************************************************************)
minimum_distance == 5

\* the feature sets goodFeaturesToTrack can find in a frame (<<>>: None)
FeatureSets == { <<>>, << <<10, 100>> >>, << <<10, 100>>, <<1000, 200>> >> }

\* how far calcOpticalFlowPyrLK can find a feature from where it was; the
\* lengths are 0, 5, 6 and 12.37..
FlowVectors == { <<0, 0>>, <<3, 4>>, <<0, 6>>, <<-12, 3>> }

\* the results calcOpticalFlowPyrLK can give for the features old
Flows(old) == { [i \in 1..Len(old) |-> <<old[i][1] + v[i][1], old[i][2] + v[i][2]>>] :
                v \in [1..Len(old) -> FlowVectors] }

\* MovedBeyond with the noise floor counted as motion
MovedAtLeast(max_distance2) == max_distance2 >= minimum_distance * minimum_distance

\* max_distance > self.minimum_distance, on the squared distance
MovedBeyond(max_distance2) == max_distance2 > minimum_distance * minimum_distance

\* lines 75-88: the loop over the feature pairs from pair i on; M holds the
\* square of max_distance and camera_movement_x, camera_movement_y
RECURSIVE MaxDisplacement(_, _, _, _)
MaxDisplacement(new, old, i, M) ==
    IF i > Min(Len(new), Len(old)) THEN M
    ELSE IF MeasureDistance2(new[i], old[i]) > M.max_distance2
         THEN MaxDisplacement(new, old, i + 1,
                  [max_distance2 |-> MeasureDistance2(new[i], old[i]),
                   x |-> old[i][1] - new[i][1], y |-> old[i][2] - new[i][2]])
         ELSE MaxDisplacement(new, old, i + 1, M)

\* lines 64-67: the call begins on a clip of n frames
GetCameraMovementBegin ==
    /\ impl = "CameraMovementEstimator"
    /\ camera_movement = <<>>
    /\ \E n \in 1..MaxFrames, found \in FeatureSets :
          /\ camera_movement' = [k \in 1..n |-> <<0, 0>>]
          /\ old_features' = found
    /\ cam_frame_num' = 0
    /\ UNCHANGED <<impl, identityVars, possVars, tallyVars, new_features, frame_features, pipeVars, serviceVars>>

\* lines 69-94: one iteration of the loop over the frames; camera_movement
\* of frame k is element k + 1 of the sequence
GetCameraMovementFrame ==
    /\ impl = "CameraMovementEstimator"
    /\ cam_frame_num + 1 < Len(camera_movement)
    /\ \E flow \in Flows(old_features), found \in FeatureSets :
       \E M \in { MaxDisplacement(flow, old_features, 1, [max_distance2 |-> 0, x |-> 0, y |-> 0]) } :
          /\ new_features' = flow
          /\ frame_features' = found
          /\ IF MovedBeyond(M.max_distance2)
             THEN /\ camera_movement' = [camera_movement EXCEPT ![cam_frame_num + 2] = <<M.x, M.y>>]
                  /\ old_features' = found
             ELSE UNCHANGED <<camera_movement, old_features>>
    /\ cam_frame_num' = cam_frame_num + 1
    /\ UNCHANGED <<impl, identityVars, possVars, tallyVars, pipeVars, serviceVars>>

(***************************************************************************)
(* AdvancedTracker.process_video_with_camera_tracking                      *)
(***************************************************************************)
MaxClip == 2

\* the key 'position', 'position_adjusted' or 'position_transformed' is
\* absent or None
NoPosition == <<>>

\* the key 'speed' is absent (a speed is a fraction <<km/h numerator, denominator>>)
NoSpeed == <<>>

\* the key 'distance' is absent
NoDistance == -1

ObjectTypes == {"players", "referees", "ball"}

\* get_foot_position
GetFootPosition(bbox) == <<(bbox[1] + bbox[3]) \div 2, bbox[4]>>

\* the referees a frame can have
RefereeSets == { <<>>, << [id |-> 9, bbox |-> BoxC] >> }

\* what the detection loop of get_object_tracks leaves for one frame, the
\* ball of a frame being the interpolated one
FrameDetections == [layout : PlayerLayouts, referees : RefereeSets, ball_bbox : BallBoxes]

\* add_position_to_tracks on one entity
WithPosition(object_type, entity) ==
    IF object_type = "ball" THEN GetCenterOfBbox(entity.bbox) ELSE GetFootPosition(entity.bbox)

\* lines 222-228 for one frame: the positions, then the has_ball marks
TrackedPlayers(d) ==
    LET marked == MarkedPlayers(PlayersOf(d.layout), d.ball_bbox)
    IN  [i \in 1..Len(marked) |->
            [id |-> marked[i].id, bbox |-> marked[i].bbox, team |-> marked[i].team,
             team_color |-> TeamColorsGet(marked[i].team),
             has_ball |-> marked[i].has_ball,
             position |-> WithPosition("players", marked[i]), position_adjusted |-> NoPosition,
             position_transformed |-> NoPosition, speed |-> NoSpeed, distance |-> NoDistance]]

TrackedOthers(object_type, entities) ==
    [i \in 1..Len(entities) |->
        [id |-> entities[i].id, bbox |-> entities[i].bbox,
         position |-> WithPosition(object_type, entities[i]), position_adjusted |-> NoPosition]]

\* get_object_tracks: detection, ball interpolation, add_position_to_tracks
\* and assign_ball_possession
GetObjectTracks ==
    /\ impl = "AdvancedTracker"
    /\ called = <<>>
    /\ \E n \in 1..MaxClip : \E d \in [1..n -> FrameDetections] :
          tracks' = [players  |-> [f \in 1..n |-> TrackedPlayers(d[f])],
                     referees |-> [f \in 1..n |-> TrackedOthers("referees", d[f].referees)],
                     ball     |-> [f \in 1..n |-> TrackedOthers("ball", << [id |-> 1, bbox |-> d[f].ball_bbox] >>)]]
    /\ called' = <<"add_position_to_tracks", "assign_ball_possession">>
    /\ UNCHANGED <<impl, identityVars, possVars, tallyVars, camVars, serviceVars, camera_movement_per_frame>>

\* what one later frame gives get_camera_movement: where the flow finds the
\* features and the features of the frame itself
FrameFlows == [v : [1..2 -> FlowVectors], found : FeatureSets]

\* lines 69-94 from frame k on (element k + 1 of cm), as in GetCameraMovementFrame
RECURSIVE CameraMovementLoop(_, _, _, _)
CameraMovementLoop(cm, old, k, inputs) ==
    IF k + 1 > Len(cm) THEN cm
    ELSE LET flow == [i \in 1..Len(old) |-> <<old[i][1] + inputs[k].v[i][1], old[i][2] + inputs[k].v[i][2]>>]
             M == MaxDisplacement(flow, old, 1, [max_distance2 |-> 0, x |-> 0, y |-> 0])
         IN  IF MovedBeyond(M.max_distance2)
             THEN CameraMovementLoop([cm EXCEPT ![k + 1] = <<M.x, M.y>>], inputs[k].found, k + 1, inputs)
             ELSE CameraMovementLoop(cm, old, k + 1, inputs)

\* line 239: get_camera_movement on the frames of the clip
GetCameraMovement ==
    /\ impl = "AdvancedTracker"
    /\ called = <<"add_position_to_tracks", "assign_ball_possession">>
    /\ \E found \in FeatureSets, inputs \in [1..(Len(tracks.ball) - 1) -> FrameFlows] :
          camera_movement_per_frame' =
              CameraMovementLoop([k \in 1..Len(tracks.ball) |-> <<0, 0>>], found, 1, inputs)
    /\ called' = Append(called, "get_camera_movement")
    /\ UNCHANGED <<impl, identityVars, possVars, tallyVars, camVars, serviceVars, tracks>>

\* PositionAdjusted moving with the camera
PositionAdjustedWithCamera(position, cm) == <<position[1] + cm[1], position[2] + cm[2]>>

\* lines 51-54
PositionAdjusted(position, cm) == <<position[1] - cm[1], position[2] - cm[2]>>

\* lines 47-55 for one entity
AdjustedEntity(entity, cm) ==
    IF entity.position = NoPosition THEN entity
    ELSE [entity EXCEPT !.position_adjusted = PositionAdjusted(entity.position, cm)]

\* line 242: add_adjust_positions_to_tracks
AddAdjustPositionsToTracks ==
    /\ impl = "AdvancedTracker"
    /\ Len(called) = 3
    /\ tracks' = [object_type \in ObjectTypes |->
                     [f \in 1..Len(tracks[object_type]) |->
                         [i \in 1..Len(tracks[object_type][f]) |->
                             AdjustedEntity(tracks[object_type][f][i], camera_movement_per_frame[f])]]]
    /\ called' = Append(called, "add_adjust_positions_to_tracks")
    /\ UNCHANGED <<impl, identityVars, possVars, tallyVars, camVars, serviceVars, camera_movement_per_frame>>

\* lines 526-552 of process_video: assign_missing_team_colors, the drawing
\* and the return of the tracks.  assign_missing_team_colors writes only
\* entries without 'team' or 'team_color', and every entry written by
\* get_object_tracks has both; the drawing reads the tracks only.
ProcessVideoReturn ==
    /\ impl = "AdvancedTracker"
    /\ Len(called) = 4
    /\ called' = Append(called, "return")
    /\ UNCHANGED <<impl, identityVars, possVars, tallyVars, camVars, serviceVars, tracks, camera_movement_per_frame>>

(***************************************************************************)
(* ViewTransformer and SpeedAndDistanceEstimator                           *)
(***************************************************************************)
MaxShortClip == 6
MaxLongClip == 17

frame_width == 1920
frame_height == 1080
court_width == 68
court_length == 105
frame_window == 5
frame_rate == 24

\* transform_point: the corners of the frame go to the corners of the court,
\* so the perspective transform is the scaling of x by 105/1920 and of y by
\* 68/1080; the pixel positions of CourtKinds make both divisions exact
TransformPoint(point) ==
    <<(point[1] * court_length) \div frame_width, (point[2] * court_width) \div frame_height>>

\* the largest r with r * r <= n
ISqrt(n) == CHOOSE r \in 0..n : r * r <= n /\ n < (r + 1) * (r + 1)

\* measure_distance of speed_and_distance_estimator.py; the court positions
\* of the model lie at whole distances of each other
MeasureDistance(p1, p2) == ISqrt(MeasureDistance2(p1, p2))

\* what a frame can hold of the player: nothing, an entry without position,
\* an entry with a raw position only, an entry with a raw and a compensated one
CourtKinds == {"absent", "neither", "raw", "adjusted"}

CourtEntity(id, kind) ==
    [id |-> id,
     position |-> CASE kind = "raw" -> <<0, 270>> [] kind = "adjusted" -> <<256, 270>> [] OTHER -> NoPosition,
     position_adjusted |-> IF kind = "adjusted" THEN <<128, 270>> ELSE NoPosition,
     position_transformed |-> NoPosition, speed |-> NoSpeed, distance |-> NoDistance]

\* the tracks of a clip whose frame f (from 0) holds the player as kinds[f + 1]
\* and the ball with a raw position
CourtTracksOf(kinds) ==
    [players  |-> [f \in 1..Len(kinds) |->
                      IF kinds[f] = "absent" THEN <<>> ELSE << CourtEntity(7, kinds[f]) >>],
     referees |-> [f \in 1..Len(kinds) |-> <<>>],
     ball     |-> [f \in 1..Len(kinds) |-> << CourtEntity(1, "raw") >>]]

\* short clips of any frames, and long clips in which the player changes
\* every frame_window frames
CourtClips ==
    { CourtTracksOf(kinds) : kinds \in UNION { [1..n -> CourtKinds] : n \in 1..MaxShortClip } }
    \cup { CourtTracksOf([f \in 1..n |-> b[(f - 1) \div frame_window]]) :
             n \in (MaxShortClip + 1)..MaxLongClip, b \in [0..(MaxLongClip \div frame_window) -> CourtKinds] }

\* TransformedEntity projecting the raw position whenever there is one
TransformedEntityFromRaw(entity) ==
    LET position == IF entity.position # NoPosition THEN entity.position ELSE entity.position_adjusted
    IN  [entity EXCEPT !.position_transformed =
            IF position = NoPosition THEN NoPosition ELSE TransformPoint(position)]

\* view_transformer.py lines 50-61 for one entity (NoPosition: None)
TransformedEntity(entity) ==
    LET position == IF entity.position_adjusted # NoPosition THEN entity.position_adjusted ELSE entity.position
    IN  [entity EXCEPT !.position_transformed =
            IF position = NoPosition THEN NoPosition ELSE TransformPoint(position)]

\* ViewTransformer.add_transformed_position_to_tracks
AddTransformedPositionToTracks ==
    /\ impl = "SpeedAndDistanceEstimator"
    /\ \A c \in 1..Len(called) : called[c] # "add_transformed_position_to_tracks"
    /\ tracks' = [object_type \in ObjectTypes |->
                     [f \in 1..Len(tracks[object_type]) |->
                         [i \in 1..Len(tracks[object_type][f]) |->
                             TransformedEntity(tracks[object_type][f][i])]]]
    /\ called' = Append(called, "add_transformed_position_to_tracks")
    /\ UNCHANGED <<impl, identityVars, possVars, tallyVars, camVars, serviceVars, camera_movement_per_frame>>

\* the entry of track_id in a frame, as a set of at most one index
EntryOf(frame, track_id) == { j \in 1..Len(frame) : frame[j].id = track_id }

\* line 26
LastFrameOf(first_frame, number_of_frames) ==
    Min(first_frame + frame_window, number_of_frames - 1)

\* line 54: range(frame_num, last_frame)
WrittenFrames(first_frame, last_frame) == first_frame..(last_frame - 1)

\* lines 38-44: speed_km_per_hour as a fraction
SpeedKmPerHour(distance_covered, first_frame, last_frame) ==
    IF last_frame - first_frame > 0
    THEN <<distance_covered * frame_rate * 36, (last_frame - first_frame) * 10>>
    ELSE <<0, 1>>

\* TotalDistanceAfter starting again at every window
TotalDistanceOfWindow(total_distance, track_id, distance_covered) == distance_covered

\* lines 46-52: total_distance[object_type][track_id] after the window
TotalDistanceAfter(total_distance, track_id, distance_covered) ==
    (IF track_id \in DOMAIN total_distance THEN total_distance[track_id] ELSE 0) + distance_covered

\* lines 28-58: the loop over the entries of frame first_frame (frame_num) from entry i on;
\* S holds object_tracks and total_distance of the object type
RECURSIVE SpeedEntries(_, _, _, _)
SpeedEntries(S, first_frame, last_frame, i) ==
    IF i > Len(S.object_tracks[first_frame + 1]) THEN S
    ELSE LET start == S.object_tracks[first_frame + 1][i]
             ends == EntryOf(S.object_tracks[last_frame + 1], start.id)
         IN  IF ends = {} THEN SpeedEntries(S, first_frame, last_frame, i + 1)
             ELSE LET end == S.object_tracks[last_frame + 1][CHOOSE j \in ends : TRUE]
                  IN  IF start.position_transformed = NoPosition \/ end.position_transformed = NoPosition
                      THEN SpeedEntries(S, first_frame, last_frame, i + 1)
                      ELSE LET distance_covered == MeasureDistance(start.position_transformed,
                                                                   end.position_transformed)
                               total == TotalDistanceAfter(S.total_distance, start.id, distance_covered)
                           IN  SpeedEntries(
                                 [object_tracks |->
                                    [f \in 1..Len(S.object_tracks) |->
                                       IF (f - 1) \in WrittenFrames(first_frame, last_frame)
                                       THEN [j \in 1..Len(S.object_tracks[f]) |->
                                               IF S.object_tracks[f][j].id = start.id
                                               THEN [S.object_tracks[f][j] EXCEPT
                                                       !.speed = SpeedKmPerHour(distance_covered, first_frame, last_frame),
                                                       !.distance = total]
                                               ELSE S.object_tracks[f][j]]
                                       ELSE S.object_tracks[f]],
                                  total_distance |-> Put(S.total_distance, start.id, total)],
                                 first_frame, last_frame, i + 1)

\* lines 24-58: the loop over the windows from the one at first_frame (frame_num) on
RECURSIVE SpeedWindows(_, _)
SpeedWindows(S, first_frame) ==
    IF first_frame >= Len(S.object_tracks) THEN S
    ELSE SpeedWindows(SpeedEntries(S, first_frame, LastFrameOf(first_frame, Len(S.object_tracks)), 1),
                      first_frame + frame_window)

\* SpeedAndDistanceEstimator.add_speed_and_distance_to_tracks: the ball and
\* the referees are passed over
AddSpeedAndDistanceToTracks ==
    /\ impl = "SpeedAndDistanceEstimator"
    /\ \A c \in 1..Len(called) : called[c] # "add_speed_and_distance_to_tracks"
    /\ tracks' = [tracks EXCEPT !.players =
                     SpeedWindows([object_tracks |-> tracks.players, total_distance |-> EmptyMap], 0).object_tracks]
    /\ called' = Append(called, "add_speed_and_distance_to_tracks")
    /\ UNCHANGED <<impl, identityVars, possVars, tallyVars, camVars, serviceVars, camera_movement_per_frame>>

(***************************************************************************)
(* Specification                                                           *)
(***************************************************************************)
\* the state after construction of an object of one of the classes, with the
\* tracks it is handed taken from given
InitWithTracks(classes, given) ==
    /\ impl \in classes
    /\ frame_num = -1
    /\ calls = 0
    /\ detections = 0
    /\ out = EmptyMap
    /\ events = <<>>
    /\ emitted = {}
    /\ removed = {}
    /\ cleaned = {}
    /\ minted = [c \in {0, 1, 2} |-> <<>>]
    /\ position_history = EmptyMap
    /\ last_seen = EmptyMap
    /\ stable_registry = EmptyMap
    /\ bytetrack_to_stable = EmptyMap
    /\ next_stable_id = 1
    /\ player_registry = EmptyMap
    /\ next_team1_id = 1
    /\ next_team2_id = 12
    /\ active_team1_ids = {}
    /\ active_team2_ids = {}
    /\ player_positions = EmptyMap
    /\ tracker_id_to_consistent_id = EmptyMap
    /\ consistent_id_to_team = EmptyMap
    /\ unmapped = {}
    /\ track_history = EmptyMap
    /\ team_colors = [t \in {1, 2} |-> IF t = 1 THEN White ELSE Green]
    /\ player_team_dict = EmptyMap
    /\ kmeans = FALSE
    /\ current_frame = TRUE
    /\ returned_teams = {}
    /\ team_colors_initialized = FALSE
    /\ derived_at = <<>>
    /\ tracks_players = <<>>
    /\ tracks_ball = <<>>
    /\ frames_read = 0
    /\ team_possession = [t \in {1, 2} |-> 0]
    /\ last_player_with_ball = NONE
    /\ last_player_team = NONE
    /\ passes = [team_1 |-> 0, team_2 |-> 0, total |-> 0]
    /\ player_passes = EmptyMap
    /\ possession_pct = <<>>
    /\ camera_movement = <<>>
    /\ old_features = <<>>
    /\ cam_frame_num = 0
    /\ new_features = <<>>
    /\ frame_features = <<>>
    /\ tracks \in given
    /\ camera_movement_per_frame = <<>>
    /\ called = <<>>
    /\ possession_timeline = <<>>
    /\ current_possessor = NONE
    /\ possession_events = <<>>
    /\ count = 0
    /\ trackers = <<>>
    /\ frame_count = 0
    /\ tracked_objects = <<>>
    /\ analyses = 1
    /\ created = <<>>
    /\ retired = {}
    /\ unmatched_updates = EmptyMap
    /\ last_update = [detections |-> <<>>, matched |-> {}, matched_detections |-> {}, made |-> <<>>]

\* the state after construction of an object of one of the classes
InitOf(classes) == InitWithTracks(classes, { [players |-> <<>>, referees |-> <<>>, ball |-> <<>>] })

\* one IDStabilizer
InitStab == InitOf({"IDStabilizer"})
SpecStab == InitStab /\ [][StabFrame]_vars

\* one IDStabilizer whose calls are at most 11 frames apart
SpecStabNear == InitStab /\ [][StabNearFrame]_vars

\* one IDStabilizer, one PersistentIDManager or one IDManager
InitIds == InitOf({"IDStabilizer", "PersistentIDManager", "IDManager"})
NextIds == StabFrame \/ PersFrame \/ IdmFrame
SpecIds == InitIds /\ [][NextIds]_vars

\* one SmartTracker
InitSmart == InitOf({"SmartTracker"})
NextSmart == SmartFrame \/ SetTeamColors
SpecSmart == InitSmart /\ [][NextSmart]_vars

\* one SmartTracker whose team_assigner is a TeamAssigner
NextSmartTeams == SmartTeamsFrame \/ AssignTeamColor
SpecSmartTeams == InitSmart /\ [][NextSmartTeams]_vars

\* upload_video on the tracks of one clip
InitUpload == InitOf({"upload_video"})
NextUpload == AssignBallPossession \/ TallyFrame \/ TallyFinish
SpecUpload == InitUpload /\ [][NextUpload]_vars

\* one call of get_camera_movement
InitCamera == InitOf({"CameraMovementEstimator"})
NextCamera == GetCameraMovementBegin \/ GetCameraMovementFrame
SpecCamera == InitCamera /\ [][NextCamera]_vars

\* one call of process_video_with_camera_tracking
InitPipeline == InitOf({"AdvancedTracker"})
NextPipeline == GetObjectTracks \/ GetCameraMovement \/ AddAdjustPositionsToTracks \/ ProcessVideoReturn
SpecPipeline == InitPipeline /\ [][NextPipeline]_vars

\* the tracks of a clip handed to a ViewTransformer and a
\* SpeedAndDistanceEstimator
InitCourt == InitWithTracks({"SpeedAndDistanceEstimator"}, CourtClips)
NextCourt == AddTransformedPositionToTracks \/ AddSpeedAndDistanceToTracks
SpecCourt == InitCourt /\ [][NextCourt]_vars

\* the detection loop of one call of get_object_tracks
InitTracks == InitOf({"get_object_tracks"})
SpecTracks == InitTracks /\ [][GetObjectTracksFrame]_vars

\* one PersistentIDManager on a long clip
InitPers == InitOf({"PersistentIDManager"})
SpecPersLong == InitPers /\ [][PersLongFrame]_vars

\* one IDStabilizer or one PersistentIDManager
InitStabPers == InitOf({"IDStabilizer", "PersistentIDManager"})
NextStabPers == StabFrame \/ PersFrame
SpecStabPers == InitStabPers /\ [][NextStabPers]_vars

InitWalk == InitOf({"IDStabilizer", "PersistentIDManager", "IDManager", "SmartTracker"})
NextWalk == StabWalkFrame \/ PersWalkFrame \/ IdmWalkFrame \/ SmartWalkFrame
SpecWalk == InitWalk /\ [][NextWalk]_vars

(***************************************************************************)
(* EventExtractor._extract_possession_changes: one iteration of the loop   *)
(* over possession_timeline per step; the entry read is the one            *)
(* calculate_possession made for the next frame                            *)
(***************************************************************************)
MaxTimeline == 6

\* the possessor_id of an entry: a track id or None
Possessors == {NONE, 1, 2}

\* EmitsChange without the test for None
EmitsChangeAlsoToNone(new_possessor, possessor) == new_possessor # possessor

\* line 237: the condition under which an event is appended
EmitsChange(new_possessor, possessor) == new_possessor # possessor /\ new_possessor # NONE

ExtractPossessionChange ==
    /\ impl = "EventExtractor"
    /\ Len(possession_timeline) < MaxTimeline
    /\ \E new_possessor \in Possessors :
          LET entry == [frame_id |-> Len(possession_timeline), possessor_id |-> new_possessor]
          IN  /\ possession_timeline' = Append(possession_timeline, entry)
              /\ IF EmitsChange(new_possessor, current_possessor)
                 THEN /\ possession_events' =
                            Append(possession_events,
                                   [type |-> "possession_change", frame_id |-> entry.frame_id,
                                    from_player |-> current_possessor, to_player |-> new_possessor])
                      /\ current_possessor' = new_possessor
                 ELSE UNCHANGED <<possession_events, current_possessor>>
    /\ UNCHANGED <<impl, identityVars, possVars, tallyVars, camVars, pipeVars, byteVars>>

InitEvents == InitOf({"EventExtractor"})
SpecEvents == InitEvents /\ [][ExtractPossessionChange]_vars

(***************************************************************************)
(* ByteTracker.update and the ByteTracker objects of a VideoProcessor.      *)
(* A tracker is its id, time_since_update and hits; a detection is its      *)
(* confidence in hundredths.  All detections are of one class.  Which       *)
(* detections the IoU of the Kalman prediction and the Hungarian algorithm  *)
(* match with which trackers is an input of the update.                     *)
(***************************************************************************)
max_lost_time == 30
min_hits == 3
high_confidence == 60

MaxAnalyses == 2
MaxUpdates == 4         \* updates per ByteTracker in the short clips
MaxByteDets == 2        \* detections per update
MaxLive == 2            \* trackers alive at once
MaxByteIds == 4         \* trackers made in the process
LongUpdates == 35       \* updates of the ByteTracker of the long clip
LongLive == 1           \* trackers alive at once in the long clip
LongIds == 2            \* trackers made in the long clip

Confidences == {59, 60}

ByteDetections == UNION { [1..n -> Confidences] : n \in 0..MaxByteDets }

\* the indices of the detections the comprehension of lines 121-122 keeps
RECURSIVE Pick(_, _, _)
Pick(dets, i, high) ==
    IF i > Len(dets) THEN <<>>
    ELSE IF (dets[i] >= high_confidence) = high
         THEN <<i>> \o Pick(dets, i + 1, high)
         ELSE Pick(dets, i + 1, high)

\* what _associate_detections_to_trackers can return as matched_trackers for
\* nt trackers and nd detections: pairs <<tracker index, detection index>>,
\* no tracker and no detection in two pairs; nothing without trackers
Associations(nt, nd) ==
    IF nt = 0 THEN { {} }
    ELSE { m \in SUBSET ((1..nt) \X (1..nd)) :
             \A a, b \in m : a # b => (a[1] # b[1] /\ a[2] # b[2]) }

\* the indices of 1..n that are not the k-th component of a pair of m, ascending
RECURSIVE Unmatched(_, _, _, _)
Unmatched(m, k, i, n) ==
    IF i > n THEN <<>>
    ELSE IF \E a \in m : a[k] = i THEN Unmatched(m, k, i + 1, n)
         ELSE <<i>> \o Unmatched(m, k, i + 1, n)

\* KalmanBoxTracker.predict, as far as time_since_update goes
Predict(tracker) == [tracker EXCEPT !.time_since_update = @ + 1]

\* KalmanBoxTracker.update
TrackerUpdate(tracker) == [tracker EXCEPT !.time_since_update = 0, !.hits = @ + 1]

\* KalmanBoxTracker.__init__ when the counter stands at n
NewTracker(n) == [id |-> n, time_since_update |-> 0, hits |-> 0]

\* Alive keeping a tracker that is exactly max_lost_time updates old
AliveOneMore(tracker) == tracker.time_since_update <= max_lost_time

\* line 152: the trackers kept
Alive(tracker) == tracker.time_since_update < max_lost_time

\* lines 143-147: the number of trackers made
Spawning(unmatched_dets, unmatched_dets_2) == Len(unmatched_dets)

SelectAlive(ts) == SelectSeq(ts, Alive)

\* ByteTracker.update(detections) with matched_trackers of the first
\* association m1 and of the second m2
ByteTrackerUpdate(frame_detections, m1, m2) ==
    LET predicted == [i \in 1..Len(trackers) |-> Predict(trackers[i])]
        high_conf_dets == Pick(frame_detections, 1, TRUE)
        low_conf_dets == Pick(frame_detections, 1, FALSE)
        unmatched_dets == Unmatched(m1, 2, 1, Len(high_conf_dets))
        unmatched_trks == Unmatched(m1, 1, 1, Len(predicted))
        after1 == [i \in 1..Len(predicted) |->
                      IF \E a \in m1 : a[1] = i THEN TrackerUpdate(predicted[i]) ELSE predicted[i]]
        unmatched_dets_2 == Unmatched(m2, 2, 1, Len(low_conf_dets))
        after2 == [i \in 1..Len(after1) |->
                      IF \E a \in m2 : unmatched_trks[a[1]] = i THEN TrackerUpdate(after1[i]) ELSE after1[i]]
        n == Spawning(unmatched_dets, unmatched_dets_2)
    IN  \E made \in { [k \in 1..n |-> NewTracker(count + k - 1)] } :
        \E all \in { after2 \o made } :
        \E active_trackers \in { SelectAlive(all) } :
        \E shown \in { SelectSeq(active_trackers,
                                  LAMBDA t : t.hits >= min_hits \/ frame_count + 1 <= min_hits) } :
        \E matched \in { { trackers[a[1]].id : a \in m1 }
                            \cup { trackers[unmatched_trks[a[1]]].id : a \in m2 } } :
        \E matched_detections \in { { high_conf_dets[a[2]] : a \in m1 }
                                       \cup { low_conf_dets[a[2]] : a \in m2 } } :
        /\ frame_count' = frame_count + 1
        /\ count' = count + n
        /\ trackers' = active_trackers
        /\ tracked_objects' = [i \in 1..Len(shown) |-> shown[i].id]
        /\ created' = created \o [k \in 1..n |-> [id |-> made[k].id, analysis |-> analyses]]
        /\ retired' = retired \cup ({ all[i].id : i \in 1..Len(all) }
                                      \ { active_trackers[i].id : i \in 1..Len(active_trackers) })
        /\ unmatched_updates' =
              [id \in { active_trackers[i].id : i \in 1..Len(active_trackers) } |->
                  IF id \in matched \/ id \notin DOMAIN unmatched_updates THEN 0
                  ELSE unmatched_updates[id] + 1]
        /\ last_update' = [detections |-> frame_detections, matched |-> matched,
                           matched_detections |-> matched_detections,
                           made |-> [k \in 1..n |-> made[k].id]]
        /\ UNCHANGED analyses

\* the updates a clip can bring the current ByteTracker: the detections of a
\* frame and what the two associations match
ByteFrame(detection_sets, max_live, max_ids) ==
    \E frame_detections \in detection_sets :
    \E m1 \in Associations(Len(trackers), Len(Pick(frame_detections, 1, TRUE))) :
    \E m2 \in Associations(Len(trackers) - Cardinality(m1), Len(Pick(frame_detections, 1, FALSE))) :
        /\ Len(trackers) + Len(Pick(frame_detections, 1, TRUE)) - Cardinality(m1) <= max_live
        /\ count + Len(Pick(frame_detections, 1, TRUE)) - Cardinality(m1) <= max_ids
        /\ ByteTrackerUpdate(frame_detections, m1, m2)

\* line 61 of process_video: the tracker sees the detections of the next frame
ByteUpdate ==
    /\ impl = "ByteTracker"
    /\ frame_count < MaxUpdates
    /\ ByteFrame(ByteDetections, MaxLive, MaxByteIds)
    /\ UNCHANGED <<impl, identityVars, possVars, tallyVars, camVars, pipeVars, eventVars>>

\* NewByteTracker setting KalmanBoxTracker.count back to 0
NewByteTrackerResetsCount ==
    /\ impl = "ByteTracker"
    /\ analyses < MaxAnalyses
    /\ analyses' = analyses + 1
    /\ trackers' = <<>>
    /\ frame_count' = 0
    /\ unmatched_updates' = EmptyMap
    /\ count' = 0
    /\ UNCHANGED <<tracked_objects, created, retired, last_update>>
    /\ UNCHANGED <<impl, identityVars, possVars, tallyVars, camVars, pipeVars, eventVars>>

\* line 56 of process_video: a new ByteTracker for the next video
NewByteTracker ==
    /\ impl = "ByteTracker"
    /\ analyses < MaxAnalyses
    /\ analyses' = analyses + 1
    /\ trackers' = <<>>
    /\ frame_count' = 0
    /\ unmatched_updates' = EmptyMap
    /\ UNCHANGED <<count, tracked_objects, created, retired, last_update>>
    /\ UNCHANGED <<impl, identityVars, possVars, tallyVars, camVars, pipeVars, eventVars>>

\* the frames of the long clip hold one detection at most
LongDetections == { d \in ByteDetections : Len(d) <= 1 }

\* line 61 of process_video, in a clip long enough to lose a track
ByteLongUpdate ==
    /\ impl = "ByteTracker"
    /\ frame_count < LongUpdates
    /\ ByteFrame(LongDetections, LongLive, LongIds)
    /\ UNCHANGED <<impl, identityVars, possVars, tallyVars, camVars, pipeVars, eventVars>>

InitByte == InitOf({"ByteTracker"})
SpecByteLong == InitByte /\ [][ByteLongUpdate]_vars
NextByte == ByteUpdate \/ NewByteTracker
SpecByte == InitByte /\ [][NextByte]_vars

NextCrowd == StabCrowdFrame \/ PersCrowdFrame

SpecDispute == InitSmart /\ [][SmartDisputeFrame]_vars

InitSquad == InitOf({"IDManager"})
SpecSquad == InitSquad /\ [][IdmSquadFrame]_vars
SpecCrowd == InitStabPers /\ [][NextCrowd]_vars

(***************************************************************************)
(* Properties                                                              *)
(***************************************************************************)
IsStab == impl = "IDStabilizer"
IsPers == impl = "PersistentIDManager"
IsIdm == impl = "IDManager"

EventIdx == 1..Len(events)

\* the entities registered in the IDStabilizer or PersistentIDManager
RegistryIds == IF IsStab THEN DOMAIN stable_registry ELSE DOMAIN player_registry
LastSeenOf(p) == IF IsStab THEN last_seen[p] ELSE player_registry[p].last_seen
LockedTeamOf(p) == IF IsStab THEN stable_registry[p].team ELSE player_registry[p].team
LastPosOf(p) == <<Last(position_history[p])[2], Last(position_history[p])[3]>>

\* C1: every stable id of IDStabilizer and every persistent id of
\* PersistentIDManager is returned with one team and one team colour only,
\* in all the frames in which it is returned.
TeamAndColourNeverChange ==
    (IsStab \/ IsPers) => \A a, b \in emitted : a[1] = b[1] => a = b

\* C1 witness: an id returned before is returned again for a detection the
\* classifier now puts in the other team.
WitnessLockedAgainstClassifier ==
    /\ IsStab
    /\ \E i \in EventIdx : /\ events[i].kind \in {"known", "reconnect"}
                           /\ events[i].answer # events[i].locked
                           /\ events[i].id \in DOMAIN out

\* C2: every track id of SmartTracker is returned with one team only, in all
\* the frames in which it is returned.
SmartTeamNeverChanges ==
    impl = "SmartTracker" => \A a, b \in emitted : a[1] = b[1] => a[2] = b[2]

\* C3: the ids minted from one counter are strictly increasing, and no id
\* that a cleanup removed is returned for a later detection.
MintedIdsIncreaseAndNeverReturn ==
    (IsStab \/ IsPers) =>
        /\ \A c \in DOMAIN minted : \A i, j \in 1..Len(minted[c]) :
               i < j => minted[c][i] < minted[c][j]
        /\ DOMAIN out \cap removed = {}

\* C3 witness: an id is minted in a call after the call whose cleanup removed
\* an earlier id.
WitnessMintAfterRemoval ==
    /\ IsStab \/ IsPers
    /\ removed \ cleaned # {}
    /\ \E i \in EventIdx : events[i].kind = "new" /\ events[i].id \in DOMAIN out

\* C4: a call of stabilize_frame_tracks returns one entry per input track
\* (no two tracks of the frame get the same stable id).
OneEntryPerTrack ==
    IsStab => Cardinality(DOMAIN out) = Len(events)

\* C5: every reconnection of a new transient id happens at a distance below
\* D_max from the entity's last recorded position and after a frame gap in
\* 1..F_max, with (D_max, F_max) = (80, 10), (100, 15), (50, 10) for
\* IDStabilizer, PersistentIDManager, IDManager.
ReconnectionWithinBounds ==
    \A i \in EventIdx : events[i].kind = "reconnect" =>
        /\ IsStab => events[i].d2 < 4 * 80 * 80 /\ events[i].gap > 0 /\ events[i].gap <= 10
        /\ IsPers => events[i].d2 < 4 * 100 * 100 /\ events[i].gap > 0 /\ events[i].gap <= 15
        /\ IsIdm => events[i].d2 < 4 * 50 * 50 /\ events[i].gap > 0 /\ events[i].gap <= 10

\* C5 witness: an IDManager reconnection over a gap of several frames and a
\* non-zero distance.
WitnessIdmReconnection ==
    /\ IsIdm
    /\ \E i \in EventIdx : events[i].kind = "reconnect" /\ events[i].gap >= 9 /\ events[i].d2 > 0

\* C6: a new transient id is never reconnected to an entity whose locked
\* team differs from the team the classifier gives the detection.
NoReconnectionAcrossTeams ==
    (IsStab \/ IsPers) =>
        \A i \in EventIdx : events[i].kind = "reconnect" => events[i].answer = events[i].locked

\* the case of C7 in a step: p is the only entity, it was last seen 9 frames
\* before the frame of the call (absent for 8 frames), and the call has one
\* detection, within 40 px of p's last recorded position
ReturnsAfterEightFrames(p) ==
    /\ IsStab \/ IsPers
    /\ RegistryIds = {p}
    /\ frame_num' - LastSeenOf(p) = 9
    /\ Len(events') = 1
    /\ DistLess(GetPositionFromBbox(events'[1].bbox), LastPosOf(p), 40)

NoIdOlderThanMaxAge ==
    IsStab => \A i \in EventIdx : events[i].kind = "new" \/ events[i].gap <= 120

EveryDetectionGetsAnId ==
    (IsStab \/ IsPers) =>
        \A i \in EventIdx : events[i].kind # "dropped" /\ events[i].id \in DOMAIN out

\* C11: a detection with a known track id that the classifier puts in the
\* track's locked team and that lies more than the maximum per-frame
\* displacement (150 px) from the track's last recorded position is returned
\* by the call under its id.
KnownTrackSurvivesMotionGate ==
    [][(impl = "SmartTracker" /\ calls' = calls + 1) =>
          \A i \in 1..Len(events') :
              (/\ events'[i].bt \in DOMAIN track_history
               /\ TeamOfAnswer(events'[i].answer) = track_history[events'[i].bt].team
               /\ DistGreater(Last(track_history[events'[i].bt].positions),
                              GetPositionFromBbox(events'[i].bbox), 150))
                  => events'[i].id \in DOMAIN out']_vars

\* the outcome of event i of a call is the outcome for team 1: the detection
\* is accepted exactly when validate_track_assignment accepts team 1 for it,
\* and a track that is new is returned with team 1
UsesTeamOne(i) ==
    /\ (events'[i].kind # "rejected")
          = ValidateTrackAssignment([th |-> track_history], events'[i].bt, events'[i].bbox, 1)
    /\ (events'[i].kind = "new") => (out'[events'[i].id].team = 1)

\* C12 as claimed: when the classification raises or returns no team, or the
\* profile is not initialised, or the frame is missing, the detection is
\* handled with team 1, and every detection of the frame is handled.
ClassifierFailureMeansTeamOne ==
    [][(impl = "SmartTracker" /\ calls' = calls + 1) =>
          /\ Len(events') = detections' - detections
          /\ \A i \in 1..Len(events') :
                (\/ events'[i].answer \in {AnswerNone, AnswerRaise}
                 \/ ~kmeans
                 \/ ~current_frame') => UsesTeamOne(i)]_vars

\* C12 amended: as claimed, the missing profile or frame counting only for a
\* track id that the TeamAssigner has not locked to a team before.
ClassifierFailureOfUnlockedMeansTeamOne ==
    [][(impl = "SmartTracker" /\ calls' = calls + 1) =>
          /\ Len(events') = detections' - detections
          /\ \A i \in 1..Len(events') :
                (\/ events'[i].answer \in {AnswerNone, AnswerRaise}
                 \/ /\ ~kmeans \/ ~current_frame'
                    /\ events'[i].bt \notin DOMAIN player_team_dict) => UsesTeamOne(i)]_vars

\* C12 witness: the classification of the first detection of a frame raised,
\* the detection was returned with team 1 and the next detection of the
\* frame was returned as well.
WitnessRaiseThenContinue ==
    /\ impl = "SmartTracker"
    /\ kmeans
    /\ Len(events) >= 2
    /\ events[1].answer = AnswerRaise
    /\ events[1].id \in DOMAIN out /\ out[events[1].id].team = 1
    /\ events[2].answer = 2
    /\ events[2].id \in DOMAIN out /\ out[events[2].id].team = 2

IsUpload == impl = "upload_video"

FrameIdx == 1..Len(tracks_players)

\* the player marked has_ball in frame f (NONE: nobody), and that player's team
HolderIn(f) ==
    LET marked == { i \in 1..Len(tracks_players[f]) : tracks_players[f][i].has_ball }
    IN  IF marked = {} THEN NONE ELSE tracks_players[f][CHOOSE i \in marked : TRUE].id

HolderTeamIn(f) ==
    LET marked == { i \in 1..Len(tracks_players[f]) : tracks_players[f][i].has_ball }
    IN  IF marked = {} THEN NONE ELSE tracks_players[f][CHOOSE i \in marked : TRUE].team

\* the last frame before f in which somebody holds the ball (0: none)
HeldBefore(f) ==
    LET held == { g \in 1..(f - 1) : HolderIn(g) # NONE }
    IN  IF held = {} THEN 0 ELSE CHOOSE g \in held : \A o \in held : o <= g

\* squared distance from the ball centre of frame f to the nearer bottom
\* corner of the bbox of the i-th player of the frame
CornerDistance2(f, i) ==
    LET c == GetCenterOfBbox(tracks_ball[f])
        b == tracks_players[f][i].bbox
    IN  Min((b[1] - c[1]) * (b[1] - c[1]) + (b[4] - c[2]) * (b[4] - c[2]),
            (b[3] - c[1]) * (b[3] - c[1]) + (b[4] - c[2]) * (b[4] - c[2]))

\* C13: in a frame in which no player is within 70 px of the ball, after a
\* frame in which a player held the ball, the player marked has_ball is that
\* previous holder.
HolderPersistsWithoutPlayerInRange ==
    IsUpload =>
        \A f \in FrameIdx :
            (/\ \A i \in 1..Len(tracks_players[f]) : CornerDistance2(f, i) >= 70 * 70
             /\ HeldBefore(f) # 0)
                => HolderIn(f) = HolderIn(HeldBefore(f))

\* C14: the player marked in a frame is within 70 px of the ball centre, no
\* player of the frame is nearer and no earlier player of the dict is as
\* near; nobody is marked exactly when no player is within 70 px; frames
\* with the same players and ball have the same holder.
BallHolderIsNearestInRange ==
    IsUpload =>
        /\ \A f \in FrameIdx :
              LET n == Len(tracks_players[f])
                  marked == { i \in 1..n : tracks_players[f][i].has_ball }
              IN  /\ Cardinality(marked) <= 1
                  /\ (marked = {}) <=> (\A i \in 1..n : CornerDistance2(f, i) >= 70 * 70)
                  /\ \A h \in marked :
                        /\ CornerDistance2(f, h) < 70 * 70
                        /\ \A o \in 1..n : CornerDistance2(f, h) <= CornerDistance2(f, o)
                        /\ \A o \in 1..(h - 1) : CornerDistance2(f, h) < CornerDistance2(f, o)
        /\ \A f, g \in FrameIdx :
              (/\ tracks_ball[f] = tracks_ball[g]
               /\ Len(tracks_players[f]) = Len(tracks_players[g])
               /\ \A i \in 1..Len(tracks_players[f]) :
                      /\ tracks_players[f][i].id = tracks_players[g][i].id
                      /\ tracks_players[f][i].bbox = tracks_players[g][i].bbox)
                  => HolderIn(f) = HolderIn(g)

\* C14 witness: in two frames two players are equally near the ball, in
\* range, and the one that comes first in the dict of its frame holds the
\* ball: player 1 in one frame and player 2 in the other.
WitnessTieGoesToFirst ==
    /\ IsUpload
    /\ \E f, g \in FrameIdx :
          /\ HolderIn(f) = 1 /\ HolderIn(g) = 2
          /\ tracks_ball[f] = tracks_ball[g]
          /\ CornerDistance2(f, 1) = CornerDistance2(f, 2)
          /\ CornerDistance2(g, 1) = CornerDistance2(g, 2)

\* whether the frame read in this step changes the holder to another player
\* of the team of the previous holder, judged from the tracks
SameTeamChange ==
    LET f == frames_read'
    IN  /\ HolderIn(f) # NONE
        /\ HeldBefore(f) # 0
        /\ HolderIn(f) # HolderIn(HeldBefore(f))
        /\ HolderTeamIn(f) = HolderTeamIn(HeldBefore(f))

\* C15: a pass is recorded at a frame exactly when the frame has a holder, an
\* earlier frame has one, the two holders (this one and the latest earlier
\* one) differ and are of one team.
PassRecordedExactlyOnSameTeamChange ==
    [][(IsUpload /\ frames_read' = frames_read + 1) =>
          /\ passes'.total \in {passes.total, passes.total + 1}
          /\ (passes'.total = passes.total + 1) <=> SameTeamChange]_vars

\* C15 witness: the ball went from player 1 to player 3 of the other team and
\* then to player 2 of the team of player 1, and no pass is recorded.
WitnessNoPassAcrossOtherTeam ==
    /\ IsUpload
    /\ frames_read = 3
    /\ HolderIn(1) = 1 /\ HolderIn(2) = 3 /\ HolderIn(3) = 2
    /\ passes.total = 0

\* player_passes.get(id, 0)
PassesOf(pp, id) == IF id \in DOMAIN pp THEN pp[id] ELSE 0

\* C16: a frame with a same-team holder change adds 1 to the total, 1 to
\* one team counter and 0 to the other, 1 to the player counter of the
\* previous holder and 0 to every other player counter; any other frame
\* changes no counter.
PassCountersMoveTogether ==
    [][(IsUpload /\ frames_read' = frames_read + 1) =>
          IF SameTeamChange
          THEN /\ passes'.total = passes.total + 1
               /\ \/ passes'.team_1 = passes.team_1 + 1 /\ passes'.team_2 = passes.team_2
                  \/ passes'.team_1 = passes.team_1 /\ passes'.team_2 = passes.team_2 + 1
               /\ \A id \in 1..4 :
                     PassesOf(player_passes', id)
                       = PassesOf(player_passes, id)
                           + (IF id = HolderIn(HeldBefore(frames_read')) THEN 1 ELSE 0)
          ELSE passes' = passes /\ player_passes' = player_passes]_vars

\* C16 witness: player 3 passed to player 4 after a frame without a holder.
WitnessPassAfterGap ==
    /\ IsUpload
    /\ frames_read = 3
    /\ HolderIn(1) = 3 /\ HolderIn(2) = NONE /\ HolderIn(3) = 4
    /\ passes = [team_1 |-> 0, team_2 |-> 1, total |-> 1]
    /\ PassesOf(player_passes, 3) = 1 /\ PassesOf(player_passes, 4) = 0

\* the frames of the clip in which a player of the team holds the ball
FramesHeldBy(team) == { f \in FrameIdx : HolderIn(f) # NONE /\ HolderTeamIn(f) = team }

\* C17: the percentage of a team is 100 * (frames held by the team) /
\* (frames with a holder); the two sum to 100 when a frame has a holder and
\* both are 50 when none has.
PossessionShareOfHeldFrames ==
    (IsUpload /\ possession_pct # <<>>) =>
        LET held == Cardinality(FramesHeldBy(1)) + Cardinality(FramesHeldBy(2))
            p1 == possession_pct[1]
            p2 == possession_pct[2]
        IN  IF held > 0
            THEN /\ p1[1] * held = 100 * Cardinality(FramesHeldBy(1)) * p1[2]
                 /\ p2[1] * held = 100 * Cardinality(FramesHeldBy(2)) * p2[2]
                 /\ p1[1] * p2[2] + p2[1] * p1[2] = 100 * p1[2] * p2[2]
            ELSE /\ p1[1] = 50 * p1[2]
                 /\ p2[1] = 50 * p2[2]

\* C17 witness: the percentages of a clip in which team 1 held the ball in
\* one frame, team 2 in another and nobody in a third.
WitnessSharesOfThreeFrames ==
    /\ IsUpload
    /\ possession_pct # <<>>
    /\ Len(tracks_players) = 3
    /\ Cardinality(FramesHeldBy(1)) = 1
    /\ Cardinality(FramesHeldBy(2)) = 1

\* C18: add_adjust_positions_to_tracks gives every entity that has a
\* position, of every object type and frame, position_adjusted = position
\* minus the camera movement of that frame, and leaves position as it was.
AdjustedIsPositionMinusCamera ==
    [][(impl = "AdvancedTracker" /\ Len(called) = 3 /\ Len(called') = 4) =>
          \A object_type \in ObjectTypes :
             /\ Len(tracks'[object_type]) = Len(tracks[object_type])
             /\ \A f \in 1..Len(tracks[object_type]) :
                   /\ Len(tracks'[object_type][f]) = Len(tracks[object_type][f])
                   /\ \A i \in 1..Len(tracks[object_type][f]) :
                         LET before == tracks[object_type][f][i]
                             after == tracks'[object_type][f][i]
                         IN  /\ after.id = before.id
                             /\ after.position = before.position
                             /\ before.position # NoPosition =>
                                   /\ after.position_adjusted[1] =
                                          before.position[1] - camera_movement_per_frame[f][1]
                                   /\ after.position_adjusted[2] =
                                          before.position[2] - camera_movement_per_frame[f][2]]_vars

\* C18 witness: the camera moved by (12,-3) in the second frame, and a
\* player, a referee and the ball of that frame have their adjusted positions.
WitnessAdjustedInMovedFrame ==
    /\ impl = "AdvancedTracker"
    /\ Len(called) = 4
    /\ Len(camera_movement_per_frame) = 2
    /\ camera_movement_per_frame[2] = <<12, -3>>
    /\ \E i \in 1..Len(tracks.players[2]) :
          /\ tracks.players[2][i].position = <<10, 40>>
          /\ tracks.players[2][i].position_adjusted = <<-2, 43>>
    /\ Len(tracks.referees[2]) = 1
    /\ tracks.referees[2][1].position_adjusted # tracks.referees[2][1].position
    /\ tracks.ball[2][1].position_adjusted # tracks.ball[2][1].position
    /\ tracks.ball[1][1].position_adjusted = tracks.ball[1][1].position

\* C19: a frame's players carry their has_ball marks only once the positions
\* of the frame are compensated for the camera movement.
PossessionAfterCameraCompensation ==
    impl = "AdvancedTracker" =>
        ("assign_ball_possession" \in { called[c] : c \in 1..Len(called) } =>
            /\ "add_adjust_positions_to_tracks" \in { called[c] : c \in 1..Len(called) }
            /\ \A f \in 1..Len(tracks.players) : \A i \in 1..Len(tracks.players[f]) :
                  tracks.players[f][i].position_adjusted # NoPosition)

\* squared length of the displacement of feature pair i in the last iteration
FlowDistance2(i) ==
    (new_features'[i][1] - old_features[i][1]) * (new_features'[i][1] - old_features[i][1])
    + (new_features'[i][2] - old_features[i][2]) * (new_features'[i][2] - old_features[i][2])

\* C20: frame 0 reports (0,0); a later frame whose largest feature
\* displacement is at most 5 px reports (0,0) and keeps the feature set; any
\* other frame reports the displacement (old minus new) of a feature pair
\* of the largest displacement and takes the features found in that frame.
CameraMovementFollowsNoiseFloor ==
    [][(impl = "CameraMovementEstimator" /\ cam_frame_num' = cam_frame_num + 1) =>
          LET k == cam_frame_num' + 1
              pairs == 1..Len(old_features)
          IN  /\ camera_movement'[1] = <<0, 0>>
              /\ \A o \in 1..Len(camera_movement) : o # k => camera_movement'[o] = camera_movement[o]
              /\ IF \A i \in pairs : FlowDistance2(i) <= 5 * 5
                 THEN /\ camera_movement'[k] = <<0, 0>>
                      /\ old_features' = old_features
                 ELSE /\ \E i \in pairs :
                            /\ \A o \in pairs : FlowDistance2(o) <= FlowDistance2(i)
                            /\ camera_movement'[k] = <<old_features[i][1] - new_features'[i][1],
                                                        old_features[i][2] - new_features'[i][2]>>
                      /\ old_features' = frame_features']_vars

\* C20 witness: a frame whose largest displacement is exactly 5 px reported
\* (0,0) after a frame that reported (12,-3).
WitnessNoiseFloorAfterMotion ==
    /\ impl = "CameraMovementEstimator"
    /\ cam_frame_num = 2
    /\ camera_movement[2] = <<12, -3>>
    /\ camera_movement[3] = <<0, 0>>
    /\ \E i \in 1..Len(new_features) :
          MeasureDistance2(new_features[i], old_features[i]) = 25

IsCourt == impl = "SpeedAndDistanceEstimator"

\* the step is a call of the named method
CourtCall(name) == IsCourt /\ called' = Append(called, name)

\* the first frames (from 0) of the windows of a clip of n frames
WindowStarts(n) == { w \in 0..(n - 1) : w % 5 = 0 }

WindowEnd(w, n) == IF w + 5 < n - 1 THEN w + 5 ELSE n - 1

\* the entries of track id in frame f (from 0) of the frames
EntriesIn(frames, f, id) == { frames[f + 1][j] : j \in EntryOf(frames[f + 1], id) }

\* the ids of the frames
IdsOf(frames) == UNION { { frames[f][j].id : j \in 1..Len(frames[f]) } : f \in 1..Len(frames) }

\* the entity id has a court position in the first and in the last frame of
\* the window at w
Measured(frames, w, id) ==
    /\ \E a \in EntriesIn(frames, w, id) : a.position_transformed # NoPosition
    /\ \E b \in EntriesIn(frames, WindowEnd(w, Len(frames)), id) : b.position_transformed # NoPosition

\* the distance between the two court positions of a measured window
Covered(frames, w, id) ==
    LET a == CHOOSE a \in EntriesIn(frames, w, id) : TRUE
        b == CHOOSE b \in EntriesIn(frames, WindowEnd(w, Len(frames)), id) : TRUE
    IN  MeasureDistance(a.position_transformed, b.position_transformed)

\* the sum of the distances of the measured windows up to the one at w
RECURSIVE CoveredUpTo(_, _, _)
CoveredUpTo(frames, w, id) ==
    IF w < 0 THEN 0
    ELSE CoveredUpTo(frames, w - 5, id) + (IF Measured(frames, w, id) THEN Covered(frames, w, id) ELSE 0)

\* C21: add_transformed_position_to_tracks projects position_adjusted when
\* there is one, else position, and gives None to an entity with neither;
\* add_speed_and_distance_to_tracks writes no speed and no distance in a
\* window one of whose end frames holds the entity with a court position None.
ProjectsCompensatedElseRawElseNone ==
    [][/\ CourtCall("add_transformed_position_to_tracks") =>
             \A object_type \in ObjectTypes : \A f \in 1..Len(tracks[object_type]) :
                /\ Len(tracks'[object_type][f]) = Len(tracks[object_type][f])
                /\ \A i \in 1..Len(tracks[object_type][f]) :
                      LET before == tracks[object_type][f][i]
                          after == tracks'[object_type][f][i]
                      IN  after.position_transformed =
                             IF before.position_adjusted # NoPosition
                             THEN <<(before.position_adjusted[1] * 105) \div 1920,
                                    (before.position_adjusted[2] * 68) \div 1080>>
                             ELSE IF before.position # NoPosition
                                  THEN <<(before.position[1] * 105) \div 1920,
                                         (before.position[2] * 68) \div 1080>>
                                  ELSE NoPosition
       /\ CourtCall("add_speed_and_distance_to_tracks") =>
             \A id \in IdsOf(tracks.players) : \A w \in WindowStarts(Len(tracks.players)) :
                (/\ EntriesIn(tracks.players, w, id) # {}
                 /\ EntriesIn(tracks.players, WindowEnd(w, Len(tracks.players)), id) # {}
                 /\ ~Measured(tracks.players, w, id)) =>
                   \A f \in w..(WindowEnd(w, Len(tracks.players)) - 1) :
                      \A e \in EntriesIn(tracks'.players, f, id) :
                         e.speed = NoSpeed /\ e.distance = NoDistance]_vars

\* C21 witness: both methods were called on a clip whose first frame holds
\* the player without any position and whose sixth frame holds it with a
\* compensated position, projected to (7,17); the first frame has no speed.
WitnessNoneStartsNoSpeed ==
    /\ IsCourt
    /\ called = <<"add_transformed_position_to_tracks", "add_speed_and_distance_to_tracks">>
    /\ Len(tracks.players) >= 6
    /\ \E a \in EntriesIn(tracks.players, 0, 7) :
          /\ a.position = NoPosition /\ a.position_adjusted = NoPosition
          /\ a.position_transformed = NoPosition /\ a.speed = NoSpeed
    /\ \E b \in EntriesIn(tracks.players, 5, 7) :
          b.position_adjusted = <<128, 270>> /\ b.position_transformed = <<7, 17>>
    /\ tracks.ball[1][1].position_transformed = <<0, 17>>

\* C22: a window whose first or last frame lacks the entity adds nothing to
\* its cumulative distance: the distance written in a measured window is the
\* sum of the distances of the measured windows so far, a frame of another
\* window gets none, and the distances written on successive frames never
\* decrease.
CumulativeDistanceSkipsGaps ==
    [][CourtCall("add_speed_and_distance_to_tracks") =>
          \A id \in IdsOf(tracks.players) :
             /\ \A w \in WindowStarts(Len(tracks.players)) :
                   \A f \in w..(WindowEnd(w, Len(tracks.players)) - 1) :
                      \A e \in EntriesIn(tracks'.players, f, id) :
                         e.distance = IF Measured(tracks.players, w, id)
                                      THEN CoveredUpTo(tracks.players, w, id)
                                      ELSE NoDistance
             /\ \A f, g \in 0..(Len(tracks.players) - 1) :
                   \A a \in EntriesIn(tracks'.players, f, id), b \in EntriesIn(tracks'.players, g, id) :
                      (f < g /\ a.distance # NoDistance /\ b.distance # NoDistance) =>
                         a.distance <= b.distance]_vars

\* C22 witness: the player covered 7 m in the window of frames 0 to 5, is
\* missing from frames 10 to 14, and frame 15 carries 7 m again.
WitnessTotalKeptOverGap ==
    /\ IsCourt
    /\ called = <<"add_transformed_position_to_tracks", "add_speed_and_distance_to_tracks">>
    /\ Len(tracks.players) = 17
    /\ \E a \in EntriesIn(tracks.players, 0, 7) : a.distance = 7
    /\ \E a \in EntriesIn(tracks.players, 5, 7) : a.distance = NoDistance
    /\ EntriesIn(tracks.players, 10, 7) = {}
    /\ \E a \in EntriesIn(tracks.players, 15, 7) : a.distance = 7 /\ a.speed = <<0, 10>>

\* C23: every frame of a measured window that holds the entity, the last
\* frame of the window included, carries the speed of the window and the
\* cumulative distance of the entity.
WholeWindowCarriesSpeedAndDistance ==
    [][CourtCall("add_speed_and_distance_to_tracks") =>
          \A id \in IdsOf(tracks.players) : \A w \in WindowStarts(Len(tracks.players)) :
             Measured(tracks.players, w, id) =>
                \A f \in w..WindowEnd(w, Len(tracks.players)) :
                   \A e \in EntriesIn(tracks'.players, f, id) :
                      e.speed # NoSpeed /\ e.distance # NoDistance]_vars

\* C24: get_object_tracks calls assign_team_color on the first frame that
\* emits at least 4 players and on no other frame.
ProfileDerivedOnceOnFirstFullFrame ==
    [][(impl = "get_object_tracks" /\ calls' = calls + 1) =>
          /\ Len(derived_at') <= 1
          /\ (derived_at' # derived_at) <=> (derived_at = <<>> /\ Cardinality(DOMAIN out') >= 4)
          /\ (derived_at' # derived_at) => derived_at' = <<frame_num'>>]_vars

\* C24 witness: frame 0 emitted fewer than 4 players, frame 1 emitted 4 and
\* the profile was derived there, frame 2 emitted 4 again.
WitnessFullFrameAfterDerivation ==
    /\ impl = "get_object_tracks"
    /\ frame_num = 2
    /\ derived_at = <<1>>
    /\ Cardinality(DOMAIN out) = 4

\* C25: get_player_team never returns two different teams for one player.
PlayerTeamNeverChanges ==
    \A a, b \in returned_teams : a[1] = b[1] => a[2] = b[2]

\* C26: every player entry of the tracks process_video returns has bbox,
\* team, colour, position, compensated position, court position, speed,
\* cumulative distance and has_ball.
ReturnedPlayerEntriesComplete ==
    (impl = "AdvancedTracker" /\ Len(called) = 5) =>
        \A f \in 1..Len(tracks.players) : \A i \in 1..Len(tracks.players[f]) :
           LET player == tracks.players[f][i]
           IN  /\ Len(player.bbox) = 4
               /\ player.team \in {1, 2}
               /\ Len(player.team_color) = 3
               /\ player.has_ball \in BOOLEAN
               /\ player.position # NoPosition
               /\ player.position_adjusted # NoPosition
               /\ player.position_transformed # NoPosition
               /\ player.speed # NoSpeed
               /\ player.distance # NoDistance

\* C27: a consistent id that cleanup_old_mappings removed from a tracker id
\* is never given to a different tracker id afterwards.
RemovedConsistentIdNeverReassigned ==
    [][IsIdm =>
          \A i \in 1..Len(events') :
             events'[i].kind \in {"new", "reconnect"} =>
                \A u \in unmapped : u[2] = events'[i].id => u[1] = events'[i].bt]_vars

\* the entities the first track of the call for frame f could be reconnected
\* with, read from the state before the call: missing for 1..max_frames_missing
\* frames (of the detection's team in the PersistentIDManager), with a
\* recorded position nearer than the reconnection threshold
LastPositionOf(id) == <<Last(position_history[id])[2], Last(position_history[id])[3]>>

EligibleBefore(position, team, f) ==
    IF IsStab
    THEN { sid \in DOMAIN stable_registry :
             /\ sid \in DOMAIN last_seen
             /\ f - last_seen[sid] \in 1..max_frames_missing
             /\ sid \in DOMAIN position_history
             /\ position_history[sid] # <<>>
             /\ DistLess(position, LastPositionOf(sid), max_distance_reconnect) }
    ELSE { pid \in DOMAIN player_registry :
             /\ player_registry[pid].team = team
             /\ f - player_registry[pid].last_seen \in 1..pers_max_frames_missing
             /\ pid \in DOMAIN position_history
             /\ position_history[pid] # <<>>
             /\ DistLess(position, LastPositionOf(pid), max_distance_for_reconnect) }

\* C28: when the first track of a call is reconnected, the entity chosen is
\* an eligible one, no eligible entity is nearer to the detection's centre,
\* and of the eligible entities exactly as near it is the one met first in
\* the registry (the one inserted first, which has the smallest id)
NearestEligibleIsReconnected ==
    [][ ( /\ IsStab \/ IsPers
          /\ calls' = calls + 1
          /\ Len(events') >= 1
          /\ events'[1].kind = "reconnect" )
        => LET position == GetPositionFromBbox(events'[1].bbox)
               eligible == EligibleBefore(position, events'[1].answer, frame_num')
               chosen == events'[1].id
           IN  /\ chosen \in eligible
               /\ \A o \in eligible :
                     /\ Dist2x4(position, LastPositionOf(chosen)) <= Dist2x4(position, LastPositionOf(o))
                     /\ Dist2x4(position, LastPositionOf(chosen)) = Dist2x4(position, LastPositionOf(o))
                           => chosen <= o ]_vars

\* a detection at BoxB reconnected with entity 1, entity 2 missing too and
\* exactly as far from the detection
WitnessTieGoesToFirstEntity ==
    /\ IsStab
    /\ calls = 2
    /\ Len(events) = 1
    /\ events[1].kind = "reconnect"
    /\ events[1].id = 1
    /\ events[1].bbox = BoxB
    /\ events[1].d2 = 4 * 30 * 30
    /\ 2 \in DOMAIN position_history
    /\ 2 \in DOMAIN last_seen
    /\ last_seen[2] = frame_num - 1
    /\ Dist2x4(GetPositionFromBbox(BoxB), LastPositionOf(2)) = 4 * 30 * 30

\* C29: within one call of process_frame_tracks no two input tracks receive
\* the same persistent id, and every entity reconnected or minted by the call
\* has last_seen equal to the frame of the call when the call is over
PersistentIdsDistinctWithinFrame ==
    IsPers =>
        /\ \A i, j \in 1..Len(events) :
              (i # j /\ events[i].id # NONE /\ events[j].id # NONE) => events[i].id # events[j].id
        /\ \A i \in 1..Len(events) :
              (events[i].id # NONE /\ events[i].id \in DOMAIN player_registry)
                  => player_registry[events[i].id].last_seen = frame_num

\* the first track of a frame is reconnected with a missing entity and the
\* second track, within reconnection distance of where that entity was last
\* frame, is given a fresh id
WitnessSecondTrackNearReconnectedEntity ==
    /\ IsPers
    /\ Len(events) = 2
    /\ events[1].kind = "reconnect"
    /\ events[2].kind = "new"
    /\ events[1].answer = events[2].answer
    /\ Len(position_history[events[1].id]) >= 2
    /\ LET h == position_history[events[1].id]
       IN  DistLess(GetPositionFromBbox(events[2].bbox), <<h[Len(h) - 1][2], h[Len(h) - 1][3]>>,
                    max_distance_for_reconnect)

\* the position history an object keeps for entity id, <<>> when it has none
HistoryIn(positions, history, id) ==
    IF impl = "SmartTracker"
    THEN IF id \in DOMAIN history THEN history[id].positions ELSE <<>>
    ELSE IF id \in DOMAIN positions THEN positions[id] ELSE <<>>

\* C30: a call that records one sample for an entity leaves that entity's
\* history holding the sample last and, before it, the most recent earlier
\* samples in the order they arrived, at most 20 samples in all in the
\* IDStabilizer, 30 in the PersistentIDManager and the IDManager and 10 in
\* the SmartTracker
HistoryHoldsMostRecentSamples ==
    [][ ( /\ impl \in {"IDStabilizer", "PersistentIDManager", "IDManager", "SmartTracker"}
          /\ calls' = calls + 1
          /\ Len(events') = 1
          /\ events'[1].kind \in {"known", "new", "reconnect"} )
        => LET id == events'[1].id
               position == GetPositionFromBbox(events'[1].bbox)
               sample == IF impl = "SmartTracker" THEN position
                         ELSE <<frame_num', position[1], position[2]>>
               most == IF IsStab THEN 20 ELSE IF impl = "SmartTracker" THEN 10 ELSE 30
               old == HistoryIn(IF IsIdm THEN player_positions ELSE position_history, track_history, id)
               new == HistoryIn(IF IsIdm THEN player_positions' ELSE position_history', track_history', id)
           IN  /\ Len(new) = Min(most, Len(old) + 1)
               /\ new[Len(new)] = sample
               /\ \A k \in 1..(Len(new) - 1) : new[k] = old[Len(old) + 1 - Len(new) + k] ]_vars

\* the PersistentIDManager has seen player 1 in more calls than its history
\* holds samples: the history is full and its oldest sample is not that of
\* the first frame
WitnessOldestSampleDropped ==
    /\ IsPers
    /\ calls = HistoryCalls
    /\ 1 \in DOMAIN position_history
    /\ Len(position_history[1]) = PersHistoryLen
    /\ position_history[1][1][1] > 0
    /\ position_history[1][PersHistoryLen][1] = frame_num

\* the team an id stands for by its range (get_team_from_consistent_id)
TeamOfRange(cid) == IF cid \in 12..22 THEN 2 ELSE 1

\* the active ids of a team that a detection at position could be reconnected
\* with at frame f, read from the state before the call
IdmEligibleBefore(position, team, f) ==
    { cid \in (IF team = 1 THEN active_team1_ids ELSE active_team2_ids) :
        /\ cid \in DOMAIN last_seen
        /\ f - last_seen[cid] \in 1..10
        /\ cid \in DOMAIN player_positions
        /\ player_positions[cid] # <<>>
        /\ DistLess(position, <<Last(player_positions[cid])[2], Last(player_positions[cid])[3]>>, 50) }

MappedStableIdsAreRegistered ==
    IsStab =>
        /\ \A b \in DOMAIN bytetrack_to_stable :
              LET sid == bytetrack_to_stable[b]
              IN  /\ sid \in DOMAIN stable_registry
                  /\ \E k \in 1..Len(stable_registry[sid].bytetrack_ids) :
                        stable_registry[sid].bytetrack_ids[k] = b
                  /\ stable_registry[sid].team \in {1, 2}
                  /\ sid \in DOMAIN last_seen
                  /\ sid \in DOMAIN position_history
                  /\ position_history[sid] # <<>>
                  /\ sid \notin removed
        /\ \A sid \in removed :
              sid \notin DOMAIN stable_registry /\ sid \notin DOMAIN last_seen

\* entity 1 was evicted and transient id 1, once its alias, is mapped to the
\* entity minted third
WitnessAliasOfEvictedMappedAnew ==
    /\ IsStab
    /\ removed = {1}
    /\ 1 \in DOMAIN bytetrack_to_stable
    /\ bytetrack_to_stable[1] = 3
    /\ 3 \in DOMAIN stable_registry

IsSmart == impl = "SmartTracker"

MarkedPlayerIsTheAssignedOne ==
    IsUpload =>
        \A f \in FrameIdx :
            LET players == tracks_players[f]
                assigned_player == AssignBallToPlayer(players, tracks_ball[f])
            IN  /\ \A i \in 1..Len(players) :
                      /\ players[i].has_ball \in BOOLEAN
                      /\ players[i].has_ball <=> players[i].id = assigned_player
                /\ Cardinality({ i \in 1..Len(players) : players[i].has_ball }) <= 1
                /\ assigned_player = -1 => \A i \in 1..Len(players) : ~players[i].has_ball

\* a frame with two players within 70 px of the ball, one marked and the
\* other not
WitnessOneOfTwoInRangeMarked ==
    /\ IsUpload
    /\ \E f \in FrameIdx : \E i, j \in 1..Len(tracks_players[f]) :
          /\ i # j
          /\ CornerDistance2(f, i) < 70 * 70
          /\ CornerDistance2(f, j) < 70 * 70
          /\ tracks_players[f][i].has_ball
          /\ ~tracks_players[f][j].has_ball

\* the sum of pp over the players ids
RECURSIVE SumOfPasses(_, _)
SumOfPasses(pp, ids) ==
    IF ids = {} THEN 0
    ELSE LET id == CHOOSE x \in ids : TRUE
         IN  pp[id] + SumOfPasses(pp, ids \ {id})

\* C36: after every frame of the tally the total of the passes is the sum of
\* the two team counters and the sum of player_passes over all players, and
\* no counter is smaller than before the frame
PassCountersAgreeAndGrow ==
    [][ IsUpload =>
          /\ passes'.total = passes'.team_1 + passes'.team_2
          /\ passes'.total = SumOfPasses(player_passes', DOMAIN player_passes')
          /\ passes'.total >= passes.total
          /\ passes'.team_1 >= passes.team_1
          /\ passes'.team_2 >= passes.team_2
          /\ \A id \in DOMAIN player_passes :
                id \in DOMAIN player_passes' /\ player_passes'[id] >= player_passes[id] ]_vars

\* two passes, one by player 1 and one by player 2
WitnessTwoPassesTwoPassers ==
    /\ IsUpload
    /\ passes.total = 2
    /\ PassesOf(player_passes, 1) = 1
    /\ PassesOf(player_passes, 2) = 1

\* the last entry of the timeline before entry k that has a possessor (0: none)
PossessedBefore(k) ==
    LET held == { g \in 1..(k - 1) : possession_timeline[g].possessor_id # NONE }
    IN  IF held = {} THEN 0 ELSE CHOOSE g \in held : \A o \in held : o <= g

\* C37: every possession_change event has a to_player that is not None and
\* differs from its from_player; its from_player is the to_player of the
\* event before it (None for the first); no event belongs to an entry without
\* possessor, and the current possessor is that of the last entry that has one
PossessionChangesChain ==
    impl = "EventExtractor" =>
        /\ \A k \in 1..Len(possession_events) :
              /\ possession_events[k].to_player # NONE
              /\ possession_events[k].to_player # possession_events[k].from_player
              /\ possession_events[k].from_player =
                    (IF k = 1 THEN NONE ELSE possession_events[k - 1].to_player)
              /\ possession_timeline[possession_events[k].frame_id + 1].possessor_id
                    = possession_events[k].to_player
        /\ current_possessor =
              (IF PossessedBefore(Len(possession_timeline) + 1) = 0 THEN NONE
               ELSE possession_timeline[PossessedBefore(Len(possession_timeline) + 1)].possessor_id)

\* player 1, then a frame without possessor, then player 1 again and then
\* player 2: two events, none for the second and the third frame
WitnessGapKeepsPossessor ==
    /\ impl = "EventExtractor"
    /\ Len(possession_timeline) = 4
    /\ possession_timeline[1].possessor_id = 1
    /\ possession_timeline[2].possessor_id = NONE
    /\ possession_timeline[3].possessor_id = 1
    /\ possession_timeline[4].possessor_id = 2
    /\ Len(possession_events) = 2
    /\ possession_events[2].from_player = 1
    /\ possession_events[2].frame_id = 3

IsByte == impl = "ByteTracker"

\* C38: the ids of the trackers made in the process, in the order in which
\* they were made, are strictly increasing, whichever ByteTracker made them:
\* no id is made twice, and the first tracker of a later ByteTracker gets an
\* id above every id made before, not 0
TrackIdsIncreaseAcrossAnalyses ==
    IsByte =>
        /\ \A i, j \in 1..Len(created) : i < j => created[i].id < created[j].id
        /\ \A i \in 1..Len(created) : created[i].id < count
        /\ \A i \in 1..Len(trackers) : \E j \in 1..Len(created) : created[j].id = trackers[i].id
        /\ \A i \in 1..Len(tracked_objects) : \E j \in 1..Len(created) :
              created[j].id = tracked_objects[i]

\* the second ByteTracker has made a tracker after the first one made one,
\* and returns it
WitnessSecondAnalysisGoesOnCounting ==
    /\ IsByte
    /\ analyses = 2
    /\ \E i, j \in 1..Len(created) :
          /\ created[i].analysis = 1
          /\ created[j].analysis = 2
          /\ created[j].id > 0
          /\ \E k \in 1..Len(tracked_objects) : tracked_objects[k] = created[j].id

TrackerIds(ts) == { ts[i].id : i \in 1..Len(ts) }

\* C39: in an update of ByteTracker, a tracker that was there before is kept
\* exactly when it is matched or has gone fewer than max_lost_time updates in
\* a row (this one included) without a match; no id of a removed tracker is
\* in the output of this or a later update; and the trackers made are one
\* for each detection of confidence 0.6 or more that no tracker was matched
\* to, none for a detection of lower confidence
LostTrackersAreRemovedForGood ==
    [][(IsByte /\ frame_count' = frame_count + 1) =>
          /\ \A id \in TrackerIds(trackers) :
                id \in TrackerIds(trackers') <=>
                    (id \in last_update'.matched \/ unmatched_updates[id] + 1 < max_lost_time)
          /\ last_update'.matched \subseteq TrackerIds(trackers) \cap TrackerIds(trackers')
          /\ \A k \in 1..Len(tracked_objects') : tracked_objects'[k] \notin retired'
          /\ retired \subseteq retired'
          /\ retired' \cap TrackerIds(trackers') = {}
          /\ Len(last_update'.made) =
                Cardinality({ i \in 1..Len(last_update'.detections) :
                                /\ last_update'.detections[i] >= high_confidence
                                /\ i \notin last_update'.matched_detections })
          /\ TrackerIds(trackers') \ TrackerIds(trackers) =
                { last_update'.made[k] : k \in 1..Len(last_update'.made) }]_vars

\* a tracker went max_lost_time updates without a match and was removed,
\* and a later update returns another tracker
WitnessLostTrackerGoneFromOutput ==
    /\ IsByte
    /\ frame_count > max_lost_time
    /\ retired # {}
    /\ last_update.made = <<>>
    /\ Len(tracked_objects) > 0
    /\ \E i \in 1..Len(trackers) : trackers[i].hits >= min_hits

====
